---- MODULE Spec2Model ----
(***************************************************************************)
(* Model of the D&D Beyond relay (proxy-server): the TTL cache, the token  *)
(* exchange, the item and spell fetchers and the HTTP handlers.            *)
(*                                                                         *)
(* The specifications share the variables below:                           *)
(*   SpecCache  - one Cache instance driven by add/exists/remove/clear     *)
(*   SpecFetch  - the bodies of fetchAllItems / fetchAllSpells applied to  *)
(*                platform responses drawn from bounded sets               *)
(*   SpecRelay  - the express handlers with the platform as environment    *)
(*   SpecLive   - SpecRelay with the abort timer as the only fair step     *)
(*   SpecBust   - items and spells requests over several cache keys        *)
(*   SpecKeys   - the cache key of the items and spells branches           *)
(*   SpecAuth   - getBearerToken called by overlapping callers             *)
(*   SpecUsers  - items and spells requests of two users, with up to two   *)
(*                handlers in flight at a time                             *)
(***************************************************************************)
EXTENDS Integers, Sequences, FiniteSets, TLC

VARIABLES
    now,          \* Date.now(), in model time units
    cacheItems,   \* Cache.items of the instance under test (Map id -> {data, timestamp})
    last,         \* the last Cache call: its arguments, the entry it found, its result
    fetchIn,      \* arguments of the running fetchAllItems / fetchAllSpells, the config it
                  \* reads, and the classes in the order their promises settled
    classResults, \* fetchAllSpells: per class, the settled fetchSpellsByClass promise
    rawItems,     \* fetchAllItems: the item array of the platform response
    fetchOut,     \* what the fetcher returned (or that it threw), with its locals
    authCache,    \* auth.js: Cache.items of authCache (token per credential hash)
    configCache,  \* sources.js: Cache.items of configCache
    itemsCache,   \* server.js: Cache.items of itemsCache
    spellsCache,  \* server.js: Cache.items of spellsCache
    recentImports, \* server.js: the last fetched items and spells bundles and when
    req,          \* the request being handled: its body, its handler's position and locals
    history,      \* the last two requests answered, with the responses sent
    served,       \* how many requests have arrived
    platformConfig, \* the sources the platform's config endpoint lists
    client,       \* the credential and the sourceBookIds the client posts
    failures,     \* outbound requests the platform has failed so far
    tokenCalls,   \* auth.js under test: per caller, its getBearerToken call
    exchangeLog,  \* auth.js under test: the token exchanges answered so far
    keyPair,      \* the two sourceBookIds lists whose cache keys are compared, and the keys
    parked        \* a second request in flight: the handler that is not the next to run

varsCache == <<now, cacheItems, last>>

varsFetch == <<fetchIn, classResults, rawItems, fetchOut>>

varsRelay == <<authCache, configCache, itemsCache, spellsCache, recentImports, req, history,
               served, platformConfig, client, failures>>

varsAuth == <<tokenCalls, exchangeLog>>

varsKeys == <<keyPair>>

varsUsers == <<parked>>

vars == <<now, cacheItems, last, fetchIn, classResults, rawItems, fetchOut,
          authCache, configCache, itemsCache, spellsCache, recentImports, req, history,
          served, platformConfig, client, failures, tokenCalls, exchangeLog, keyPair,
          parked>>

----------------------------------------------------------------------------
(* Bounds *)

\* time-to-live of the Cache instance under test (ttlMs), in model time units
TtlUnits == 2

\* the clock stops advancing here
MaxTime == 5

----------------------------------------------------------------------------
(* JavaScript values stored in a Cache *)

JsNull == [type |-> "null", val |-> <<>>]

JsArray(elems) == [type |-> "array", val |-> elems]

JsString(chars) == [type |-> "string", val |-> chars]

\* !data
Falsy(data) == data.type = "null" \/ (data.type = "string" /\ data.val = <<>>)

\* Array.isArray(data) && data.length === 0
IsEmptyArray(data) == data.type = "array" /\ Len(data.val) = 0

\* payloads offered to add(): null, [], two non-empty arrays, a token string
Payloads == {JsNull, JsArray(<<>>), JsArray(<<1>>), JsArray(<<2>>), JsString(<<7>>)}

CacheKeys == {"k1", "k2"}

----------------------------------------------------------------------------
(* class Cache *)

\* Map.delete(id)
MapDelete(items, id) == [k \in (DOMAIN items) \ {id} |-> items[k]]

\* Map.set(id, entry)
MapSet(items, id, entry) == [k \in (DOMAIN items) \cup {id} |-> IF k = id THEN entry ELSE items[k]]

\* a mutation of isExpired: an entry expires as soon as its age reaches the ttl
isExpired_AtTtl(timestamp, t, ttlMs) == (t - timestamp) >= ttlMs

\* Cache.isExpired
isExpired(timestamp, t, ttlMs) == (t - timestamp) > ttlMs

\* Cache.exists: the returned {exists, data} and the Map it leaves behind
Cache_exists(items, id, t, ttlMs) ==
    IF id \notin DOMAIN items
    THEN [exists |-> FALSE, data |-> JsNull, items |-> items]
    ELSE IF isExpired(items[id].timestamp, t, ttlMs)
         THEN [exists |-> FALSE, data |-> JsNull, items |-> MapDelete(items, id)]
         ELSE [exists |-> TRUE, data |-> items[id].data, items |-> items]

\* a mutation of Cache.add: the empty-data guard is missing
Cache_add_NoGuard(items, id, data, t) ==
    [stored |-> TRUE,
     items |-> MapSet(MapDelete(items, id), id, [data |-> data, timestamp |-> t])]

\* a mutation of Cache.add: the old entry is removed before the empty-data guard
Cache_add_DeleteFirst(items, id, data, t) ==
    IF Falsy(data) \/ IsEmptyArray(data)
    THEN [stored |-> FALSE, items |-> MapDelete(items, id)]
    ELSE [stored |-> TRUE,
          items |-> MapSet(MapDelete(items, id), id, [data |-> data, timestamp |-> t])]

\* Cache.add: whether the data was stored, and the Map it leaves behind
Cache_add(items, id, data, t) ==
    IF Falsy(data) \/ IsEmptyArray(data)
    THEN [stored |-> FALSE, items |-> items]
    ELSE [stored |-> TRUE,
          items |-> MapSet(IF id \in DOMAIN items THEN MapDelete(items, id) ELSE items,
                           id, [data |-> data, timestamp |-> t])]

\* Cache.remove
Cache_remove(items, id) == MapDelete(items, id)

\* the empty Map
EmptyMap == [k \in {} |-> JsNull]

\* Cache.clear
Cache_clear(items) == EmptyMap

\* Cache.size
Cache_size(items) == Cardinality(DOMAIN items)

\* the call record of SpecCache: no entry was found under the key
NoTs == -1

NoCall == [op |-> "none", key |-> "k1", data |-> JsNull, at |-> 0, ts |-> NoTs,
           sizeBefore |-> 0, exists |-> FALSE, ret |-> JsNull, stored |-> FALSE]

\* timestamp of the entry stored under id, NoTs when there is none
StoredTs(items, id) == IF id \in DOMAIN items THEN items[id].timestamp ELSE NoTs

\* no Cache call is under observation
IdleCache == now = 0 /\ cacheItems = EmptyMap /\ last = NoCall

----------------------------------------------------------------------------
(* config.js *)

\* CONSTANTS.EXCLUDED_SOURCE_ID (Unearthed Arcana)
EXCLUDED_SOURCE_ID == 39

\* CONSTANTS.SPELLCASTING_CLASSES
SPELLCASTING_CLASSES ==
    << [id |-> 1, name |-> "Bard"],        [id |-> 2, name |-> "Cleric"],
       [id |-> 3, name |-> "Druid"],       [id |-> 4, name |-> "Paladin"],
       [id |-> 5, name |-> "Ranger"],      [id |-> 6, name |-> "Sorcerer"],
       [id |-> 7, name |-> "Warlock"],     [id |-> 8, name |-> "Wizard"],
       [id |-> 9, name |-> "Barbarian"],   [id |-> 10, name |-> "Fighter"],
       [id |-> 11, name |-> "Monk"],       [id |-> 12, name |-> "Rogue"],
       [id |-> 252717, name |-> "Artificer"],
       [id |-> 357975, name |-> "Blood Hunter"] >>

\* RARITY_MAP is imported by the item module from config.js, but no config.js
\* of the source tree defines it; the two entries the specification gives
RARITY_MAP == [r \in {"0", "1"} |-> IF r = "0" THEN "Mundane" ELSE "Common"]

----------------------------------------------------------------------------
(* Bounds of the fetcher model *)

\* the classes whose endpoint answers with spells are the NumClasses entries
\* of SPELLCASTING_CLASSES starting at FirstClass; every other class answers
\* with an empty list and so adds nothing to the merge
FirstClass == 8

NumClasses == 2

\* longest spell list one class endpoint returns
MaxPerClass == 1

\* longest item array the item endpoint returns
MaxItems == 3

ActiveClasses == FirstClass .. (FirstClass + NumClasses - 1)

----------------------------------------------------------------------------
(* Sequences *)

SeqMember(x, seq) == \E i \in 1..Len(seq) : seq[i] = x

Range(seq) == {seq[i] : i \in 1..Len(seq)}

RECURSIVE UnionSeq(_, _)
\* [...new Set([...a, ...b])] for a duplicate-free a: insertion order kept
UnionSeq(a, b) ==
    IF b = <<>> THEN a
    ELSE IF SeqMember(Head(b), a) THEN UnionSeq(a, Tail(b))
         ELSE UnionSeq(Append(a, Head(b)), Tail(b))

\* the class names in the order the default comparator of Array.prototype.sort
\* puts them (UTF-16 code units)
SortedClassNames ==
    << "Artificer", "Barbarian", "Bard", "Blood Hunter", "Cleric", "Druid", "Fighter",
       "Monk", "Paladin", "Ranger", "Rogue", "Sorcerer", "Warlock", "Wizard" >>

NameRank(name) == CHOOSE i \in 1..Len(SortedClassNames) : SortedClassNames[i] = name

RECURSIVE InsertSorted(_, _)
InsertSorted(name, sorted) ==
    IF sorted = <<>> THEN <<name>>
    ELSE IF NameRank(name) <= NameRank(Head(sorted)) THEN <<name>> \o sorted
         ELSE <<Head(sorted)>> \o InsertSorted(name, Tail(sorted))

RECURSIVE SortNames(_)
\* names.sort()
SortNames(names) ==
    IF names = <<>> THEN <<>> ELSE InsertSorted(Head(names), SortNames(Tail(names)))

\* the strictly increasing index sequences of length <= maxLen into 1..n
IncreasingSeqs(n, maxLen) ==
    UNION { {s \in [1..len -> 1..n] : \A i \in 1..(len - 1) : s[i] < s[i + 1]} :
            len \in 0..maxLen }

----------------------------------------------------------------------------
(* The platform's records *)

\* a sources property: undefined, or an array of {sourceId}
NoSources == [defined |-> FALSE, ids |-> <<>>]

Sources(ids) == [defined |-> TRUE, ids |-> ids]

\* spell.definition is undefined
NoDefinition == [present |-> FALSE, name |-> "", sources |-> NoSources, rarity |-> "undefined"]

\* a spell as the spell endpoint wraps it: {id, definition: {name, sources}}
DefSpell(name, sources) ==
    [id |-> 0, name |-> "", sources |-> NoSources,
     definition |-> [present |-> TRUE, name |-> name, sources |-> sources,
                     rarity |-> "undefined"]]

\* a spell in the flat shape: {id, name, sources}
FlatSpell(name, sources) ==
    [id |-> 0, name |-> name, sources |-> sources, definition |-> NoDefinition]

\* names a record can carry; "" is a record without a name
SpellNames == <<"Aid", "Bane", "">>

SourceLists == << <<1>>, <<2>>, <<39>>, <<1, 39>>, <<2, 39>> >>

\* the spell records an endpoint can return, before the platform mints their
\* ids: each name with each source list, then records without a name, a
\* record without sources, two records in the flat shape, and a record that
\* carries a name of its own beside its definition's
SpellCatalog ==
    [k \in 1..(2 * Len(SourceLists)) |->
        DefSpell(SpellNames[((k - 1) \div Len(SourceLists)) + 1],
                 Sources(SourceLists[((k - 1) % Len(SourceLists)) + 1]))]
    \o << DefSpell("", Sources(<<1>>)),
          DefSpell("", Sources(<<39>>)),
          DefSpell("Aid", NoSources),
          FlatSpell("Aid", Sources(<<39>>)),
          FlatSpell("Bane", Sources(<<2>>)),
          [DefSpell("Aid", Sources(<<1>>)) EXCEPT !.name = "Bane"] >>

\* the response of the endpoint of class c that lists the catalog records picked:
\* the platform mints ids per class context
SpellResponse(c, picked) ==
    [i \in 1..Len(picked) |->
        [SpellCatalog[picked[i]] EXCEPT !.id = SPELLCASTING_CLASSES[c].id * 100 + picked[i]]]

\* an item of the item endpoint: {id, name, rarity, definition?, sources}
Item(id, rarity, defn, sources) ==
    [id |-> id, name |-> "Item", rarity |-> rarity, definition |-> defn, sources |-> sources]

\* item.definition = {rarity}
RarityDefinition(r) == [NoDefinition EXCEPT !.present = TRUE, !.rarity = r]

\* (rarity, definition) pairs: a number or null at the top level, or the
\* property missing with or without a definition that carries one
RarityShapes ==
    << <<"0", NoDefinition>>, <<"1", NoDefinition>>, <<"99", NoDefinition>>,
       <<"null", NoDefinition>>, <<"undefined", NoDefinition>>,
       <<"undefined", RarityDefinition("0")>>, <<"undefined", RarityDefinition("1")>>,
       <<"null", RarityDefinition("1")>> >>

ItemSourceShapes ==
    << Sources(<<2>>), Sources(<<39>>), Sources(<<1, 39>>), Sources(<<2, 39>>), NoSources >>

\* the items the endpoint can return: every rarity shape citing source 1, then
\* every other source shape with rarity 1
ItemCatalog ==
    [k \in 1..Len(RarityShapes) |->
        Item(k, RarityShapes[k][1], RarityShapes[k][2], Sources(<<1>>))]
    \o [k \in 1..Len(ItemSourceShapes) |->
        Item(Len(RarityShapes) + k, "1", NoDefinition, ItemSourceShapes[k])]

ItemResponse(picked) == [i \in 1..Len(picked) |-> ItemCatalog[picked[i]]]

\* config.sources as the config endpoint can return it; name "" is a source
\* without a name
ConfigFull ==
    << [id |-> 1, name |-> "Player's Handbook"], [id |-> 2, name |-> "Monster Manual"],
       [id |-> 39, name |-> "Unearthed Arcana"] >>

ConfigPartial == << [id |-> 1, name |-> "Player's Handbook"] >>

ConfigNameless == << [id |-> 1, name |-> "Player's Handbook"], [id |-> 2, name |-> ""] >>

\* the sources of the {sources: []} that fetchDDBConfig returns when the request fails
ConfigEmpty == <<>>

\* sourceBookIds of a request; <<>> also stands for null / undefined
SourceFilters == { <<>>, <<1>>, <<39, 1>> }

----------------------------------------------------------------------------
(* sources.js *)

\* getAllSources, given the sources of the config fetchDDBConfig returned
getAllSources(configSources) ==
    [i \in 1..Len(configSources) |-> [id |-> configSources[i].id, name |-> configSources[i].name]]

\* buildSourceMap: id -> name for the sources that have both; a later source
\* with the same id replaces an earlier one
buildSourceMap(configSources) ==
    LET ok == {i \in 1..Len(configSources) :
                  configSources[i].id # 0 /\ configSources[i].name # ""}
        lastOf(id) == CHOOSE i \in ok : /\ configSources[i].id = id
                                        /\ \A j \in ok : configSources[j].id = id => j <= i
    IN [id \in {configSources[i].id : i \in ok} |-> configSources[lastOf(id)].name]

\* extractSourceName for a source reference {sourceId}
extractSourceName(sourceId, sourceMap) ==
    IF sourceId # 0 /\ sourceId \in DOMAIN sourceMap THEN sourceMap[sourceId]
    ELSE IF sourceId # 0 THEN "Source " \o ToString(sourceId)
    ELSE "Unknown Source"

RECURSIVE UniqueNames(_, _, _)
UniqueNames(ids, sourceMap, acc) ==
    IF ids = <<>> THEN acc
    ELSE UniqueNames(Tail(ids), sourceMap, UnionSeq(acc, <<extractSourceName(Head(ids), sourceMap)>>))

\* extractSourceBook: the names that the code joins with ', '
extractSourceBook(ids, sourceMap) ==
    IF ids = <<>> THEN <<"Unknown Source">> ELSE UniqueNames(ids, sourceMap, <<>>)

\* a mutation of CitesExcluded: only the first source of the entry is looked at
CitesExcluded_FirstOnly(ids) == ids # <<>> /\ ids[1] = EXCLUDED_SOURCE_ID

\* sources.some(source => source.sourceId === CONSTANTS.EXCLUDED_SOURCE_ID)
CitesExcluded(ids) == \E i \in 1..Len(ids) : ids[i] = EXCLUDED_SOURCE_ID

\* sources.some(source => sourceBookIds.includes(source.sourceId))
CitesAny(ids, sourceBookIds) == \E i \in 1..Len(ids) : SeqMember(ids[i], sourceBookIds)

\* the owned ids of one source list (if (source.sourceId) ownedSourceIds.add(...))
OwnedIn(ids) == {ids[i] : i \in 1..Len(ids)} \ {0}

\* a mutation of OwnershipEntries: ownership is taken from what the source
\* filter left
OwnershipEntries_Filtered(unfiltered, filtered) == filtered

\* the entries the ownedSourceIds loop runs over: the array as it is before
\* the source filter
OwnershipEntries(unfiltered, filtered) == unfiltered

\* ownershipBySourceId: one entry per source of getAllSources
OwnershipMap(allSources, ownedSourceIds) ==
    [id \in {allSources[i].id : i \in 1..Len(allSources)} |-> id \in ownedSourceIds]

----------------------------------------------------------------------------
(* items module *)

\* item.sources || []
ItemSources(item) == IF item.sources.defined THEN item.sources.ids ELSE <<>>

\* item.rarity !== undefined ? item.rarity : item.definition?.rarity
RarityId(item) ==
    IF item.rarity # "undefined" THEN item.rarity
    ELSE IF item.definition.present THEN item.definition.rarity ELSE "undefined"

\* a mutation of RarityName: the fallback of the earlier item modules
RarityName_Unknown(rarityId) ==
    IF rarityId \in DOMAIN RARITY_MAP THEN RARITY_MAP[rarityId] ELSE "Unknown"

\* RARITY_MAP[rarityId !== null && rarityId !== undefined ? rarityId : 0] || 'Mundane'
RarityName(rarityId) ==
    LET key == IF rarityId # "null" /\ rarityId # "undefined" THEN rarityId ELSE "0"
    IN IF key \in DOMAIN RARITY_MAP /\ RARITY_MAP[key] # "" THEN RARITY_MAP[key] ELSE "Mundane"

\* enhanceItemData: the item's own properties, then the computed ones
enhanceItemData(item, sourceMap) ==
    [id |-> item.id,
     name |-> IF item.name # "" THEN item.name ELSE "Unknown Item",
     rarity |-> item.rarity,
     definition |-> item.definition,
     sources |-> item.sources,
     sourceBook |-> extractSourceBook(ItemSources(item), sourceMap),
     rarityName |-> RarityName(RarityId(item))]

\* filterUnearthedArcana of the items module
filterUnearthedArcanaItems(items) ==
    LET Keep(item) == ~item.sources.defined \/ ~CitesExcluded(ItemSources(item))
    IN SelectSeq(items, Keep)

\* filterBySourceBooks of the items module
filterItemsBySourceBooks(items, sourceBookIds) ==
    LET Keep(item) == CitesAny(ItemSources(item), sourceBookIds)
    IN IF sourceBookIds = <<>> THEN items ELSE SelectSeq(items, Keep)

\* the ownedSourceIds loop, over the source lists of the entries
OwnedSourceIds(sourceLists) ==
    UNION {OwnedIn(sourceLists[i]) : i \in 1..Len(sourceLists)}

\* fetchAllItems from the parsed response on: what it returns, with the
\* locals the claims speak about. mapSources is the config buildSourceMap read,
\* allConfig the config the later getAllSources read.
fetchAllItemsFrom(items, sourceBookIds, mapSources, allConfig) ==
    LET sourceMap == buildSourceMap(mapSources)
        kept == filterItemsBySourceBooks(items, sourceBookIds)
        counted == OwnershipEntries(items, kept)
        ownedSourceIds == OwnedSourceIds([i \in 1..Len(counted) |-> ItemSources(counted[i])])
        enhancedItems == [i \in 1..Len(kept) |-> enhanceItemData(kept[i], sourceMap)]
        filteredItems == filterUnearthedArcanaItems(enhancedItems)
        allSources == getAllSources(allConfig)
    IN [done |-> TRUE, threw |-> FALSE, kind |-> "items",
        entries |-> filteredItems,
        ownershipBySourceId |-> OwnershipMap(allSources, ownedSourceIds),
        allSources |-> allSources,
        keptRaw |-> kept,
        enhanced |-> enhancedItems,
        merged |-> <<>>]

----------------------------------------------------------------------------
(* spells module *)

\* spell.definition?.sources || spell.sources || []
SpellSources(spell) ==
    IF spell.definition.present /\ spell.definition.sources.defined
    THEN spell.definition.sources.ids
    ELSE IF spell.sources.defined THEN spell.sources.ids ELSE <<>>

\* definition.name || spell.name || 'Unknown Spell', definition = spell.definition || spell
SpellName(spell) ==
    LET definitionName == IF spell.definition.present THEN spell.definition.name ELSE spell.name
    IN IF definitionName # "" THEN definitionName
       ELSE IF spell.name # "" THEN spell.name ELSE "Unknown Spell"

\* enhanceSpellData: the spell's own properties, then the computed ones
enhanceSpellData(spell, className, sourceMap) ==
    [id |-> spell.id,
     name |-> SpellName(spell),
     sources |-> spell.sources,
     definition |-> spell.definition,
     classes |-> <<className>>,
     sourceBook |-> extractSourceBook(SpellSources(spell), sourceMap)]

\* what fetchSpellsByClass resolves to when the endpoint answered with data
enhanceClassResult(c, spells, sourceMap) ==
    [i \in 1..Len(spells) |-> enhanceSpellData(spells[i], SPELLCASTING_CLASSES[c].name, sourceMap)]

\* filterUnearthedArcana of the spells module
filterUnearthedArcanaSpells(spells) ==
    LET Keep(spell) ==
            \/ ~(spell.definition.present /\ spell.definition.sources.defined)
               /\ ~spell.sources.defined
            \/ ~CitesExcluded(SpellSources(spell))
    IN SelectSeq(spells, Keep)

\* filterBySourceBooks of the spells module
filterSpellsBySourceBooks(spells, sourceBookIds) ==
    LET Keep(spell) == CitesAny(SpellSources(spell), sourceBookIds)
    IN IF sourceBookIds = <<>> THEN spells ELSE SelectSeq(spells, Keep)

\* a mutation of SpellKey: the merge is keyed by the platform id
SpellKey_ById(spell) == spell.id

\* the key of spellsMap
SpellKey(spell) == spell.name

RECURSIVE MergeSpells(_, _)
\* the merge loop: spellsMap as the sequence of its values in insertion order
MergeSpells(spellsMap, rest) ==
    IF rest = <<>> THEN spellsMap
    ELSE LET spell == Head(rest)
             hit == {i \in 1..Len(spellsMap) : SpellKey(spellsMap[i]) = SpellKey(spell)}
         IN IF spell.name = "" THEN MergeSpells(spellsMap, Tail(rest))
            ELSE IF hit # {}
                 THEN LET i == CHOOSE j \in hit : TRUE
                      IN MergeSpells([spellsMap EXCEPT ![i].classes =
                                          UnionSeq(@, spell.classes)], Tail(rest))
                 ELSE MergeSpells(Append(spellsMap, spell), Tail(rest))

\* skippedCount of the merge loop: the spells it passes over for want of a name
SkippedCount(spells) == Cardinality({i \in 1..Len(spells) : spells[i].name = ""})

RECURSIVE FlattenIn(_, _)
\* the class results concatenated in the order of a list of classes
FlattenIn(results, order) ==
    IF order = <<>> THEN <<>> ELSE results[Head(order)] \o FlattenIn(results, Tail(order))

\* a mutation of the merge: the class results are taken in the order in which
\* the class promises settled
Flatten_AsSettled(results, classes) == FlattenIn(results, fetchIn.settled)

RECURSIVE Flatten(_, _)
\* the class results in the order of SPELLCASTING_CLASSES; results[c] is the
\* list class c resolved to
Flatten(results, classes) ==
    IF classes = {} THEN <<>>
    ELSE LET c == CHOOSE x \in classes : \A y \in classes : x <= y
         IN results[c] \o Flatten(results, classes \ {c})

\* {...rest, availableToClasses: _classes.sort(), availableToSubclasses: []}
FinalizeSpell(spell) ==
    [id |-> spell.id, name |-> spell.name, sources |-> spell.sources,
     definition |-> spell.definition, sourceBook |-> spell.sourceBook,
     availableToClasses |-> SortNames(spell.classes),
     availableToSubclasses |-> <<>>]

\* fetchAllSpells from the settled class promises on
fetchAllSpellsFrom(results, sourceBookIds, allConfig) ==
    LET spellsMap == MergeSpells(<<>>, Flatten(results, DOMAIN results))
        allSpells == [i \in 1..Len(spellsMap) |-> FinalizeSpell(spellsMap[i])]
        filteredSpells == filterSpellsBySourceBooks(filterUnearthedArcanaSpells(allSpells),
                                                    sourceBookIds)
        counted == OwnershipEntries(allSpells, filteredSpells)
        ownedSourceIds == OwnedSourceIds([i \in 1..Len(counted) |-> SpellSources(counted[i])])
        allSources == getAllSources(allConfig)
    IN [done |-> TRUE, threw |-> FALSE, kind |-> "spells",
        entries |-> filteredSpells,
        ownershipBySourceId |-> OwnershipMap(allSources, ownedSourceIds),
        allSources |-> allSources,
        keptRaw |-> <<>>,
        enhanced |-> <<>>,
        merged |-> allSpells]

----------------------------------------------------------------------------
(* SpecFetch: fetchAllItems and fetchAllSpells on the platform's answers *)

\* no fetcher is running
IdleFetchIn == [kind |-> "idle", sourceBookIds |-> <<>>, config |-> ConfigEmpty, settled |-> <<>>]

\* a fetchSpellsByClass promise that has not settled
Pending == [state |-> "pending", failed |-> FALSE, raw |-> <<>>, spells |-> <<>>]

NoOut == [done |-> FALSE, threw |-> FALSE, kind |-> "none", entries |-> <<>>,
          ownershipBySourceId |-> [id \in {} |-> FALSE], allSources |-> <<>>,
          keptRaw |-> <<>>, enhanced |-> <<>>, merged |-> <<>>]

IdleFetch ==
    /\ fetchIn = IdleFetchIn
    /\ classResults = [c \in ActiveClasses |-> Pending]
    /\ rawItems = <<>>
    /\ fetchOut = NoOut

----------------------------------------------------------------------------
(* Bounds of the relay model *)

\* CACHE_TTL.AUTH in model time units
AuthTtl == 1

\* CACHE_TTL.CONFIG, CACHE_TTL.SPELLS and CACHE_TTL.ITEMS in model time units
DataTtl == 2

\* the 300000 ms within which both imports count as recent, in model time units
ReportWindow == 1

\* the clock of the relay model stops advancing here
RelayMaxTime == 3

\* requests the relay receives in one behaviour
MaxReqs == 2

\* outbound requests the platform fails in one behaviour
MaxFailures == 1

\* CACHE_TTL of config.js
CACHE_TTL == [AUTH |-> AuthTtl, CONFIG |-> DataTtl, SPELLS |-> DataTtl, ITEMS |-> DataTtl]

----------------------------------------------------------------------------
(* Cache.get / Cache.set: sources.js calls them on configCache, but the Cache
   class of the source tree defines neither.  They are modelled from the
   specification's TTL-cache contract: get returns the data of a valid entry
   (and evicts an expired one), set stores like add. *)

Cache_get(items, id, t, ttlMs) == Cache_exists(items, id, t, ttlMs)

Cache_set(items, id, data, t) == Cache_add(items, id, data, t)

----------------------------------------------------------------------------
(* The relay: request bodies *)

\* req.body.cobaltCookie: its typeof, its length, and which string it is
Cookie(type, len, id) == [type |-> type, len |-> len, id |-> id]

CookieUndefined == Cookie("undefined", 0, 0)

CookieNumber == Cookie("number", 0, 5)

CookieEmpty == Cookie("string", 0, 0)

CookieShort == Cookie("string", 19, 1)

CookieLong == Cookie("string", 2001, 2)

\* a well-formed credential the platform accepts
CookieX == Cookie("string", 20, 3)

\* the credential of a second user
CookieY == Cookie("string", 20, 6)

\* a well-formed credential the platform rejects (expired)
CookieB == Cookie("string", 2000, 4)

Cookies == {CookieUndefined, CookieNumber, CookieEmpty, CookieShort, CookieLong,
            CookieX, CookieB}

\* the credentials the platform's token exchange accepts
AcceptedCookies == {CookieX, CookieY}

\* JavaScript truthiness of the cookie
CookieTruthy(cookie) ==
    \/ cookie.type = "number" /\ cookie.id # 0
    \/ cookie.type = "string" /\ cookie.len > 0

\* the validateCobaltCookie middleware: next(), or the 400 it answers
validateCobaltCookie(cookie) ==
    IF ~CookieTruthy(cookie) \/ cookie.type # "string"
    THEN [next |-> FALSE, status |-> 400, error |-> "Invalid request",
          message |-> "Cobalt cookie is required"]
    ELSE IF cookie.len < 20 \/ cookie.len > 2000
    THEN [next |-> FALSE, status |-> 400, error |-> "Invalid cookie",
          message |-> "Cobalt cookie format is invalid"]
    ELSE [next |-> TRUE, status |-> 0, error |-> "", message |-> ""]

\* the characters of a cobaltCookie that is a string
CookieString(cookie) == "cobalt:" \o ToString(cookie.id)

\* a mutation of getCacheId: the cookie itself is the cache id
getCacheId_Raw(cookie) == CookieString(cookie)

\* getCacheId: the SHA-256 hex digest, one per distinct string;
\* hash.update throws a TypeError when the cookie is not a string
getCacheId(cookie) == "sha256:" \o ToString(cookie.id)

getCacheIdThrows(cookie) == cookie.type # "string"

\* the decimal digits of a source id
RECURSIVE Digits(_)
Digits(n) == IF n < 10 THEN <<n>> ELSE Append(Digits(n \div 10), n % 10)

RECURSIVE DigitsLess(_, _)
\* the default comparator of Array.prototype.sort: by string
DigitsLess(a, b) ==
    IF a = <<>> THEN b # <<>>
    ELSE IF b = <<>> THEN FALSE
    ELSE IF Head(a) # Head(b) THEN Head(a) < Head(b)
    ELSE DigitsLess(Tail(a), Tail(b))

RECURSIVE InsertId(_, _)
InsertId(id, sorted) ==
    IF sorted = <<>> THEN <<id>>
    ELSE IF DigitsLess(Digits(Head(sorted)), Digits(id))
         THEN <<Head(sorted)>> \o InsertId(id, Tail(sorted))
         ELSE <<id>> \o sorted

RECURSIVE SortIds(_)
\* sourceBookIds.sort()
SortIds(ids) == IF ids = <<>> THEN <<>> ELSE InsertId(Head(ids), SortIds(Tail(ids)))

RECURSIVE JoinIds(_)
\* ids.join('_')
JoinIds(ids) ==
    IF ids = <<>> THEN ""
    ELSE IF Len(ids) = 1 THEN ToString(ids[1])
    ELSE ToString(Head(ids)) \o "_" \o JoinIds(Tail(ids))

\* a mutation of cacheId: the id is made of the sourceBookIds alone
ContentCacheId_NoCookie(cookie, sourceBookIds) ==
    "content" \o "_sources_" \o JoinIds(SortIds(sourceBookIds))

\* cacheId of the items and spells branches
ContentCacheId(cookie, sourceBookIds) ==
    IF sourceBookIds # <<>>
    THEN getCacheId(cookie) \o "_sources_" \o JoinIds(SortIds(sourceBookIds))
    ELSE getCacheId(cookie)

\* sourceBookIds of the requests of the relay model
RelayFilters == { <<>>, <<1>>, <<39>> }

Endpoints == {"/api/validate-cookie", "/api/character/x", "/api/content/items",
              "/api/content/spells", "/api/content/sources", "/api/content/other"}

----------------------------------------------------------------------------
(* The relay: the platform behind it *)

\* the item endpoint, when it answers: items citing sources 1, 2 and 39
PlatformItems == ItemResponse(<<1, 9, 10>>)

\* the spell endpoint of class c, when it answers: the Wizard list holds
\* "Aid", every other list "Aid" and "Bane"
PlatformSpells(c) == SpellResponse(c, IF c = 8 THEN <<1>> ELSE <<1, 7>>)

\* what the item endpoint answers to the bearer of a credential: each user
\* is entitled to content of their own
PlatformItemsOf(cookie) == IF cookie = CookieY THEN ItemResponse(<<2, 9>>) ELSE PlatformItems

\* what the spell endpoint of class c answers to the bearer of a credential
PlatformSpellsOf(c, cookie) ==
    IF cookie = CookieY THEN SpellResponse(c, IF c = 8 THEN <<2>> ELSE <<2, 6>>)
    ELSE PlatformSpells(c)

\* the token the exchange returns for a credential
Token(cookie) == JsString(<<cookie.id>>)

\* what the token exchange can answer for a credential
ExchangeOutcomes(cookie) ==
    IF cookie \in AcceptedCookies THEN {"ok", "unavailable"} ELSE {"rejected", "unavailable"}

\* the parsed config as the Cache stores it
ConfigObject(sources) == [type |-> "object", val |-> sources]

CallKinds == {"exchange", "config", "items", "spells", "generic", "character"}

NoCalls == [k \in CallKinds |-> 0]

----------------------------------------------------------------------------
(* The relay: responses *)

\* res.status(status).json({error, message})
ErrorBody(error, message) ==
    [type |-> "error", val |-> <<>>, error |-> error, message |-> message]

\* res.json({valid, token}) and res.status(401).json({valid: false, message})
ValidationBody(valid, token) ==
    [type |-> "validation", val |-> token.val, error |-> "",
     message |-> IF valid THEN "" ELSE "Cookie is invalid or expired"]

\* the JSON a proxied platform endpoint returned
PlatformJson == [type |-> "json", val |-> <<>>, error |-> "", message |-> ""]

\* recentImports as the module initialises it
NoRecentImports ==
    [items |-> NoOut, spells |-> NoOut, lastUpdate |-> [items |-> 0, spells |-> 0]]

\* the data caches and recentImports as a request finds or leaves them
SnapshotOf(w) ==
    [itemsCache |-> w.itemsCache, spellsCache |-> w.spellsCache,
     recentImports |-> w.recentImports]

NoSnapshot ==
    [itemsCache |-> EmptyMap, spellsCache |-> EmptyMap, recentImports |-> NoRecentImports]

\* no request is being handled
IdleReq ==
    [phase |-> "idle", endpoint |-> "", cookie |-> CookieUndefined, bustCache |-> FALSE,
     sourceBookIds |-> <<>>, at |-> 0, cacheId |-> "", mapConfig |-> <<>>,
     classes |-> [c \in ActiveClasses |-> Pending], raw |-> <<>>,
     calls |-> NoCalls, sent |-> {}, logged |-> {}, lost |-> {}, rejected |-> FALSE, hit |-> FALSE,
     before |-> NoSnapshot, n |-> 0, peers |-> {}, fetched |-> JsNull]

\* the relay before its first request
IdleRelay ==
    /\ authCache = EmptyMap
    /\ configCache = EmptyMap
    /\ itemsCache = EmptyMap
    /\ spellsCache = EmptyMap
    /\ recentImports = NoRecentImports
    /\ req = IdleReq
    /\ history = <<>>
    /\ served = 0
    /\ platformConfig = ConfigFull
    /\ client = [cookie |-> CookieX, sourceBookIds |-> <<>>]
    /\ failures = 0

----------------------------------------------------------------------------
(* auth.js under test: getBearerToken, split at its await *)

\* callers whose getBearerToken calls may overlap
NumCallers == 2

\* token exchanges the auth service answers in one behaviour
MaxExchanges == 3

\* distinct tokens the auth service hands out per credential
NumTokens == 2

\* the clock of SpecAuth stops advancing here
AuthMaxTime == 3

Callers == 1..NumCallers

\* the credentials of SpecAuth: one the auth service accepts, one it rejects
AuthCookies == {CookieX, CookieB}

\* the bearer tokens the auth service may hand out for a credential
TokensOf(cookie) == {JsString(<<cookie.id, n>>) : n \in 1..NumTokens}

\* what the await of fetch(.../cobalt-token) can produce: a rejected promise,
\* a non-2xx answer, or a 2xx answer whose body holds a token, an empty token
\* or no token
ExchangeResponses(cookie) ==
    {[kind |-> "network", status |-> 0, token |-> JsNull],
     [kind |-> "http", status |-> 503, token |-> JsNull]}
    \cup (IF cookie \in AcceptedCookies
          THEN {[kind |-> "http", status |-> 200, token |-> tk] :
                    tk \in TokensOf(cookie) \cup {JsNull, JsString(<<>>)}}
          ELSE {[kind |-> "http", status |-> 401, token |-> JsNull]})

\* a mutation of getBearerToken: the cache is never consulted
getBearerToken_lookup_NoCache(cache, cookie, t) ==
    [exists |-> FALSE, data |-> JsNull, items |-> cache]

\* getBearerToken up to its await: authCache.exists(cacheId)
getBearerToken_lookup(cache, cookie, t) ==
    Cache_exists(cache, getCacheId(cookie), t, CACHE_TTL.AUTH)

\* a mutation of getBearerToken: whatever the exchange answered is cached
getBearerToken_answer_CacheAlways(cache, cookie, response, t) ==
    [threw |-> response.kind = "network" \/ response.status \notin 200..299
                 \/ Falsy(response.token),
     message |-> "", token |-> response.token,
     items |-> Cache_add_NoGuard(cache, getCacheId(cookie), response.token, t).items]

\* getBearerToken after its await: it throws, or caches and returns the token
getBearerToken_answer(cache, cookie, response, t) ==
    IF response.kind = "network"
    THEN [threw |-> TRUE, message |-> "fetch failed", token |-> JsNull, items |-> cache]
    ELSE IF response.status \notin 200..299
    THEN [threw |-> TRUE,
          message |-> IF response.status \in {401, 403}
                      THEN "Invalid or expired Cobalt cookie"
                      ELSE "Auth service error: " \o ToString(response.status),
          token |-> JsNull, items |-> cache]
    ELSE IF Falsy(response.token) \/ Len(response.token.val) = 0
    THEN [threw |-> TRUE, message |-> "No bearer token received from D&D Beyond",
          token |-> JsNull, items |-> cache]
    ELSE [threw |-> FALSE, message |-> "", token |-> response.token,
          items |-> Cache_add(cache, getCacheId(cookie), response.token, t).items]

\* a caller that has not called getBearerToken yet
NoTokenCall ==
    [state |-> "idle", cookie |-> CookieX, startedAt |-> 0, logAtStart |-> 0,
     exchanged |-> FALSE, token |-> JsNull]

\* no getBearerToken call is under observation
IdleAuth == tokenCalls = [i \in Callers |-> NoTokenCall] /\ exchangeLog = <<>>

\* no pair of sourceBookIds lists is under comparison
NoKeyPair ==
    [cookie |-> CookieX, a |-> <<>>, b |-> <<>>, keyA |-> "", keyB |-> "", computed |-> FALSE]

IdleKeys == keyPair = NoKeyPair

\* no second request is in flight
IdleUsers == parked = IdleReq

----------------------------------------------------------------------------
(* SpecFetch: initial states and actions *)

InitFetch ==
    /\ IdleCache
    /\ IdleRelay
    /\ IdleAuth
    /\ IdleKeys
    /\ IdleUsers
    /\ fetchIn \in [kind : {"items", "spells"}, sourceBookIds : SourceFilters,
                    config : {ConfigFull, ConfigPartial, ConfigEmpty}, settled : {<<>>}]
    /\ classResults = [c \in ActiveClasses |-> Pending]
    /\ rawItems = <<>>
    /\ fetchOut = NoOut

\* the endpoint of class c answers 200 {success, data: [...]}: fetchSpellsByClass
\* resolves to the enhanced list
ClassResponds(c, picked) ==
    /\ fetchIn.kind = "spells"
    /\ classResults[c].state = "pending"
    /\ LET raw == SpellResponse(c, picked)
       IN classResults' = [classResults EXCEPT ![c] =
              [state |-> "done", failed |-> FALSE, raw |-> raw,
               spells |-> enhanceClassResult(c, raw, buildSourceMap(fetchIn.config))]]
    /\ fetchIn' = [fetchIn EXCEPT !.settled = Append(@, c)]
    /\ UNCHANGED <<rawItems, fetchOut, varsCache, varsRelay, varsAuth, varsKeys, varsUsers>>

\* the fetch of class c fails (token exchange, network error, non-2xx, body
\* without data): fetchSpellsByClass resolves to []
ClassFails(c) ==
    /\ fetchIn.kind = "spells"
    /\ classResults[c].state = "pending"
    /\ classResults' = [classResults EXCEPT ![c] =
           [state |-> "done", failed |-> TRUE, raw |-> <<>>, spells |-> <<>>]]
    /\ fetchIn' = [fetchIn EXCEPT !.settled = Append(@, c)]
    /\ UNCHANGED <<rawItems, fetchOut, varsCache, varsRelay, varsAuth, varsKeys, varsUsers>>

\* Promise.all has settled: merge, ownership, filters, return
SpellsReturn ==
    /\ fetchIn.kind = "spells"
    /\ ~fetchOut.done
    /\ \A c \in ActiveClasses : classResults[c].state = "done"
    /\ fetchOut' = fetchAllSpellsFrom([c \in ActiveClasses |-> classResults[c].spells],
                                      fetchIn.sourceBookIds, fetchIn.config)
    /\ UNCHANGED <<fetchIn, classResults, rawItems, varsCache, varsRelay, varsAuth, varsKeys, varsUsers>>

\* the item endpoint answers with an array: fetchAllItems runs to its return
ItemsRespond(picked) ==
    /\ fetchIn.kind = "items"
    /\ ~fetchOut.done
    /\ rawItems' = ItemResponse(picked)
    /\ fetchOut' = fetchAllItemsFrom(ItemResponse(picked), fetchIn.sourceBookIds,
                                     fetchIn.config, fetchIn.config)
    /\ UNCHANGED <<fetchIn, classResults, varsCache, varsRelay, varsAuth, varsKeys, varsUsers>>

\* the token exchange or the item request fails: fetchAllItems rethrows
ItemsFail ==
    /\ fetchIn.kind = "items"
    /\ ~fetchOut.done
    /\ fetchOut' = [NoOut EXCEPT !.done = TRUE, !.threw = TRUE, !.kind = "items"]
    /\ UNCHANGED <<fetchIn, classResults, rawItems, varsCache, varsRelay, varsAuth, varsKeys, varsUsers>>

NextFetch ==
    \/ \E c \in ActiveClasses, picked \in IncreasingSeqs(Len(SpellCatalog), MaxPerClass) :
           ClassResponds(c, picked)
    \/ \E c \in ActiveClasses : ClassFails(c)
    \/ SpellsReturn
    \/ \E picked \in IncreasingSeqs(Len(ItemCatalog), MaxItems) : ItemsRespond(picked)
    \/ ItemsFail

SpecFetch == InitFetch /\ [][NextFetch]_vars


----------------------------------------------------------------------------
(* SpecCache: calls on one Cache instance, interleaved with the clock *)

InitCache ==
    /\ now = 0
    /\ cacheItems = EmptyMap
    /\ last = NoCall
    /\ IdleFetch
    /\ IdleRelay
    /\ IdleAuth
    /\ IdleKeys
    /\ IdleUsers

Tick ==
    /\ now < MaxTime
    /\ now' = now + 1
    /\ UNCHANGED <<cacheItems, last, varsFetch, varsRelay, varsAuth, varsKeys, varsUsers>>

CallAdd(id, data) ==
    LET r == Cache_add(cacheItems, id, data, now) IN
    /\ cacheItems' = r.items
    /\ last' = [op |-> "add", key |-> id, data |-> data, at |-> now,
                ts |-> StoredTs(cacheItems, id), sizeBefore |-> Cache_size(cacheItems),
                exists |-> FALSE, ret |-> JsNull, stored |-> r.stored]
    /\ UNCHANGED <<now, varsFetch, varsRelay, varsAuth, varsKeys, varsUsers>>

CallExists(id) ==
    LET r == Cache_exists(cacheItems, id, now, TtlUnits) IN
    /\ cacheItems' = r.items
    /\ last' = [op |-> "exists", key |-> id, data |-> JsNull, at |-> now,
                ts |-> StoredTs(cacheItems, id), sizeBefore |-> Cache_size(cacheItems),
                exists |-> r.exists, ret |-> r.data, stored |-> FALSE]
    /\ UNCHANGED <<now, varsFetch, varsRelay, varsAuth, varsKeys, varsUsers>>

CallRemove(id) ==
    /\ cacheItems' = Cache_remove(cacheItems, id)
    /\ last' = [op |-> "remove", key |-> id, data |-> JsNull, at |-> now,
                ts |-> StoredTs(cacheItems, id), sizeBefore |-> Cache_size(cacheItems),
                exists |-> FALSE, ret |-> JsNull, stored |-> FALSE]
    /\ UNCHANGED <<now, varsFetch, varsRelay, varsAuth, varsKeys, varsUsers>>

CallClear ==
    /\ cacheItems' = Cache_clear(cacheItems)
    /\ last' = [NoCall EXCEPT !.op = "clear", !.at = now,
                              !.sizeBefore = Cache_size(cacheItems)]
    /\ UNCHANGED <<now, varsFetch, varsRelay, varsAuth, varsKeys, varsUsers>>

NextCache ==
    \/ Tick
    \/ \E id \in CacheKeys, data \in Payloads : CallAdd(id, data)
    \/ \E id \in CacheKeys : CallExists(id)
    \/ \E id \in CacheKeys : CallRemove(id)
    \/ CallClear

SpecCache == InitCache /\ [][NextCache]_vars

----------------------------------------------------------------------------
(* The relay: the handlers of server.js.  A handler runs from one await to
   the next in one step; w is the module state it reads and leaves behind. *)

\* the caches, recentImports, the request being handled and the responses sent
Relay ==
    [authCache |-> authCache, configCache |-> configCache, itemsCache |-> itemsCache,
     spellsCache |-> spellsCache, recentImports |-> recentImports,
     req |-> req, history |-> history]

Becomes(w) ==
    /\ authCache' = w.authCache
    /\ configCache' = w.configCache
    /\ itemsCache' = w.itemsCache
    /\ spellsCache' = w.spellsCache
    /\ recentImports' = w.recentImports
    /\ req' = w.req
    /\ history' = w.history

\* the token getBearerToken hands to its caller: the one authCache holds for
\* the credential of the request
BearerOf(w) ==
    IF getCacheId(w.req.cookie) \in DOMAIN w.authCache
    THEN w.authCache[getCacheId(w.req.cookie)].data
    ELSE JsNull

\* the credential headers of an outbound request: the token exchange and
\* makeAuthenticatedRequest send Cookie: CobaltSession=<cobaltCookie>, the
\* item, spell and generic requests Authorization: Bearer <token> (the
\* generic one nothing when the request has no cookie), the config request
\* neither
OutboundHeaders(w, kind) ==
    [kind |-> kind,
     cookie |-> kind \in {"exchange", "character"},
     authorization |-> IF kind \in {"items", "spells", "generic"} THEN BearerOf(w) ELSE JsNull]

\* fetch(...): one more outbound request of the request being handled
IssueCall(w, kind) ==
    [w EXCEPT !.req.calls[kind] = @ + 1, !.req.sent = @ \cup {OutboundHeaders(w, kind)}]

\* the await on fetch(...) of that kind rejected, or resolved to an answer the
\* caller throws on
Lost(w, kind) == [w EXCEPT !.req.lost = @ \cup {kind}]

\* console.log / warn / error: the values the log lines of the request
\* interpolate that stem from the request or from a failure
Logs(w, values) == [w EXCEPT !.req.logged = @ \cup values]

\* the Cache logs id.substring(0, 8) when it finds, evicts, adds or skips an entry
IdPrefix(id) == "substring(0,8):" \o id

\* res.status(status).json(body): the handler is done
Respond(w, status, body) ==
    [w EXCEPT !.history = Append(@,
                  [endpoint |-> w.req.endpoint, cookie |-> w.req.cookie,
                   bustCache |-> w.req.bustCache, sourceBookIds |-> w.req.sourceBookIds,
                   at |-> w.req.at, doneAt |-> now, status |-> status, body |-> body,
                   calls |-> w.req.calls, sent |-> w.req.sent,
                   logged |-> w.req.logged, lost |-> w.req.lost,
                   rejected |-> w.req.rejected,
                   hit |-> w.req.hit, classes |-> w.req.classes,
                   before |-> w.req.before, after |-> SnapshotOf(w),
                   n |-> w.req.n, peers |-> w.req.peers, fetched |-> w.req.fetched]),
              !.req = IdleReq]

\* the catch block of the content handler: 500 unless the message names a timeout
ContentError(w, message) ==
    Respond(Logs(w, {message}), 500, ErrorBody("API request failed", message))

\* getBearerToken up to its await: authCache.exists(getCacheId(cobaltCookie))
TokenLookup(w) == Cache_exists(w.authCache, getCacheId(w.req.cookie), now, CACHE_TTL.AUTH)

\* the relay after that lookup: an expired token is gone, and a hit or an
\* eviction is logged
Looked(w, r) ==
    [(IF r.exists \/ r.items # w.authCache
      THEN Logs(w, {IdPrefix(getCacheId(w.req.cookie))}) ELSE w)
     EXCEPT !.authCache = r.items]

\* getBearerToken after a 2xx answer with a token: authCache.add
TokenStored(w) ==
    [Logs(w, {IdPrefix(getCacheId(w.req.cookie))}) EXCEPT !.authCache =
        Cache_add(@, getCacheId(w.req.cookie), Token(w.req.cookie), now).items]

\* Math.abs
Abs(x) == IF x < 0 THEN 0 - x ELSE x

\* generateCombinedReport throws a TypeError at source.name.padEnd when a
\* source of itemsData.allSources has no name
generateCombinedReportThrows(itemsData, spellsData) ==
    \E i \in 1..Len(itemsData.allSources) : itemsData.allSources[i].name = ""

\* the items and spells branches after fetchAllItems / fetchAllSpells returned:
\* recentImports, the cache, the combined report, the response
Finish(w, allConfig) ==
    LET r == w.req
        isItems == r.endpoint = "/api/content/items"
        kind == IF isItems THEN "items" ELSE "spells"
        data == IF isItems
                THEN fetchAllItemsFrom(r.raw, r.sourceBookIds, r.mapConfig, allConfig)
                ELSE fetchAllSpellsFrom([c \in ActiveClasses |-> r.classes[c].spells],
                                        r.sourceBookIds, allConfig)
        recent == [w.recentImports EXCEPT ![kind] = data, !.lastUpdate[kind] = now]
        other == IF isItems THEN recent.spells ELSE recent.items
        timeDiff == Abs(recent.lastUpdate.items - recent.lastUpdate.spells)
        w1 == [Logs(w, {IdPrefix(r.cacheId)}) EXCEPT !.recentImports = recent,
                        !.req.fetched = JsArray(data.entries),
                        !.itemsCache = IF isItems
                                       THEN Cache_add(@, r.cacheId, JsArray(data.entries), now).items
                                       ELSE @,
                        !.spellsCache = IF isItems THEN @
                                        ELSE Cache_add(@, r.cacheId, JsArray(data.entries), now).items]
    IN IF other.done /\ timeDiff < ReportWindow
          /\ generateCombinedReportThrows(recent.items, recent.spells)
       THEN ContentError(w1, "Cannot read properties of undefined (reading 'padEnd')")
       ELSE Respond(w1, 200, JsArray(data.entries))

\* getAllSources -> fetchDDBConfig: the cached config, or the request is sent
AfterFetch(w) ==
    LET r == Cache_get(w.configCache, "config", now, CACHE_TTL.CONFIG)
        w1 == [w EXCEPT !.configCache = r.items]
    IN IF r.exists THEN Finish(w1, r.data.val)
       ELSE [IssueCall(w1, "config") EXCEPT !.req.phase = "sources_wait"]

RECURSIVE StartClasses(_, _)
\* SPELLCASTING_CLASSES.map(fetchSpellsByClass): each call runs up to its first
\* request, the token exchange unless authCache holds the token
StartClasses(w, classes) ==
    IF classes = {} THEN w
    ELSE LET c == CHOOSE x \in classes : \A y \in classes : x <= y
             r == TokenLookup(w)
             w1 == Looked(w, r)
             w2 == IF r.exists
                   THEN [IssueCall(w1, "spells") EXCEPT !.req.classes[c].state = "fetch"]
                   ELSE [IssueCall(w1, "exchange") EXCEPT !.req.classes[c].state = "exchange"]
         IN StartClasses(w2, classes \ {c})

\* fetchAllItems / fetchAllSpells after buildSourceMap
AfterConfig(w, sources) ==
    LET w0 == [w EXCEPT !.req.mapConfig = sources]
        r == TokenLookup(w0)
        w1 == Looked(w0, r)
    IN IF w.req.endpoint = "/api/content/items"
       THEN IF r.exists
            THEN [IssueCall(w1, "items") EXCEPT !.req.phase = "items_wait"]
            ELSE [IssueCall(w1, "exchange") EXCEPT !.req.phase = "items_exchange"]
       ELSE StartClasses([w0 EXCEPT !.req.phase = "fanout"], ActiveClasses)

\* buildSourceMap -> fetchDDBConfig: the cached config, or the request is sent
BeginFetch(w) ==
    LET r == Cache_get(w.configCache, "config", now, CACHE_TTL.CONFIG)
        w1 == [w EXCEPT !.configCache = r.items]
    IN IF r.exists THEN AfterConfig(w1, r.data.val)
       ELSE [IssueCall(w1, "config") EXCEPT !.req.phase = "config_wait"]

\* a mutation of the items and spells branches: the cache is never consulted
ContentCached_NoLookup(w) ==
    IF getCacheIdThrows(w.req.cookie)
    THEN ContentError(w, "The \"data\" argument must be of type string")
    ELSE BeginFetch([w EXCEPT !.req.cacheId =
                        ContentCacheId(w.req.cookie, w.req.sourceBookIds)])

\* a mutation of the items and spells branches: bustCache drops the entry
ContentCached_BustEvicts(w) ==
    LET isItems == w.req.endpoint = "/api/content/items"
        cacheId == ContentCacheId(w.req.cookie, w.req.sourceBookIds)
        cache == IF isItems THEN w.itemsCache ELSE w.spellsCache
        ttl == IF isItems THEN CACHE_TTL.ITEMS ELSE CACHE_TTL.SPELLS
        cached == IF w.req.bustCache
                  THEN [exists |-> FALSE, data |-> JsNull, items |-> Cache_remove(cache, cacheId)]
                  ELSE Cache_exists(cache, cacheId, now, ttl)
        w1 == [w EXCEPT !.req.cacheId = cacheId,
                        !.itemsCache = IF isItems THEN cached.items ELSE @,
                        !.spellsCache = IF isItems THEN @ ELSE cached.items]
    IN IF getCacheIdThrows(w.req.cookie)
       THEN ContentError(w, "The \"data\" argument must be of type string")
       ELSE IF cached.exists THEN Respond([w1 EXCEPT !.req.hit = TRUE], 200, cached.data)
       ELSE BeginFetch(w1)

\* the items and spells branches up to fetchAllItems / fetchAllSpells
ContentCached(w) ==
    LET isItems == w.req.endpoint = "/api/content/items"
        cacheId == ContentCacheId(w.req.cookie, w.req.sourceBookIds)
        cache == IF isItems THEN w.itemsCache ELSE w.spellsCache
        ttl == IF isItems THEN CACHE_TTL.ITEMS ELSE CACHE_TTL.SPELLS
        cached == IF w.req.bustCache
                  THEN [exists |-> FALSE, data |-> JsNull, items |-> cache]
                  ELSE Cache_exists(cache, cacheId, now, ttl)
        w1 == [w EXCEPT !.req.cacheId = cacheId,
                        !.itemsCache = IF isItems THEN cached.items ELSE @,
                        !.spellsCache = IF isItems THEN @ ELSE cached.items]
    IN IF getCacheIdThrows(w.req.cookie)
       THEN ContentError(w, "The \"data\" argument must be of type string")
       ELSE IF cached.exists
       THEN Respond(Logs([w1 EXCEPT !.req.hit = TRUE], {IdPrefix(cacheId)}), 200, cached.data)
       ELSE BeginFetch(IF cached.items # cache THEN Logs(w1, {IdPrefix(cacheId)}) ELSE w1)

\* the generic branch of the content handler
ContentGeneric(w) ==
    LET r == TokenLookup(w)
        w1 == Looked(w, r)
    IN IF ~CookieTruthy(w.req.cookie)
       THEN [IssueCall(w, "generic") EXCEPT !.req.phase = "generic_wait"]
       ELSE IF getCacheIdThrows(w.req.cookie)
       THEN ContentError(w, "The \"data\" argument must be of type string")
       ELSE IF r.exists
       THEN [IssueCall(w1, "generic") EXCEPT !.req.phase = "generic_wait"]
       ELSE [IssueCall(w1, "exchange") EXCEPT !.req.phase = "generic_exchange"]

\* POST /api/validate-cookie behind the validateCobaltCookie middleware
ValidateCookie(w) ==
    LET r == TokenLookup(w)
        w1 == Looked(w, r)
        v == validateCobaltCookie(w.req.cookie)
    IN IF ~v.next THEN Respond(w, v.status, ErrorBody(v.error, v.message))
       ELSE IF r.exists THEN Respond(w1, 200, ValidationBody(TRUE, r.data))
       ELSE [IssueCall(w1, "exchange") EXCEPT !.req.phase = "validate_exchange"]

\* POST /api/character/* behind the validateCobaltCookie middleware
Character(w) ==
    LET v == validateCobaltCookie(w.req.cookie)
    IN IF ~v.next THEN Respond(w, v.status, ErrorBody(v.error, v.message))
       ELSE [IssueCall(w, "character") EXCEPT !.req.phase = "character_wait"]

\* express routes the request
HandleRequest(w) ==
    CASE w.req.endpoint = "/api/validate-cookie" -> ValidateCookie(w)
      [] w.req.endpoint = "/api/character/x" -> Character(w)
      [] w.req.endpoint \in {"/api/content/items", "/api/content/spells"} -> ContentCached(w)
      [] w.req.endpoint = "/api/content/sources" ->
             ContentError(w, "Sources endpoint not available from D&D Beyond API")
      [] OTHER -> ContentGeneric(w)

----------------------------------------------------------------------------
(* SpecRelay: requests arrive one after the other; the platform answers the
   outbound requests of the handler, or fails them *)

InitRelay ==
    /\ IdleCache
    /\ IdleFetch
    /\ IdleAuth
    /\ IdleKeys
    /\ IdleUsers
    /\ authCache = EmptyMap
    /\ configCache = EmptyMap
    /\ itemsCache = EmptyMap
    /\ spellsCache = EmptyMap
    /\ recentImports = NoRecentImports
    /\ req = IdleReq
    /\ history = <<>>
    /\ served = 0
    /\ platformConfig \in {ConfigFull, ConfigNameless}
    /\ client \in [cookie : Cookies, sourceBookIds : RelayFilters]
    /\ failures = 0

\* a POST arrives and its handler runs up to its first outbound request; of
\* the requests answered before, the last one stays on record
Receive(endpoint, bustCache) ==
    /\ req.phase = "idle"
    /\ served < MaxReqs
    /\ served' = served + 1
    /\ Becomes(HandleRequest([Relay EXCEPT
           !.history = IF @ = <<>> THEN @ ELSE <<@[Len(@)]>>,
           !.req = [IdleReq EXCEPT !.phase = "received", !.endpoint = endpoint,
                                   !.logged = {endpoint},
                                   !.cookie = client.cookie, !.bustCache = bustCache,
                                   !.at = now, !.before = SnapshotOf(Relay),
                                   !.sourceBookIds = SortIds(client.sourceBookIds)]]))
    /\ UNCHANGED <<now, cacheItems, last, varsFetch, platformConfig, client, failures, varsAuth, varsKeys, varsUsers>>

\* the platform answers, or fails one more outbound request
Answered(ok) ==
    /\ ok \/ failures < MaxFailures
    /\ failures' = IF ok THEN failures ELSE failures + 1
    /\ UNCHANGED <<now, cacheItems, last, varsFetch, served, platformConfig, client, varsAuth, varsKeys, varsUsers>>

\* a mutation of fetchDDBConfig: a failed request rejects the promise
ConfigAnswers_FailureRejects(ok) ==
    /\ req.phase = "config_wait"
    /\ Becomes(IF ok
               THEN AfterConfig([Relay EXCEPT !.configCache =
                        Cache_set(@, "config", ConfigObject(platformConfig), now).items],
                        platformConfig)
               ELSE ContentError(Lost(Relay, "config"), "D&D Beyond config API error: 503"))
    /\ Answered(ok)

\* the config endpoint answers the request of buildSourceMap, or fails
ConfigAnswers(ok) ==
    /\ req.phase = "config_wait"
    /\ Becomes(IF ok
               THEN AfterConfig([Relay EXCEPT !.configCache =
                        Cache_set(@, "config", ConfigObject(platformConfig), now).items],
                        platformConfig)
               ELSE AfterConfig(Logs(Lost(Relay, "config"),
                                     {"D&D Beyond config API error: 503"}), ConfigEmpty))
    /\ Answered(ok)

\* the config endpoint answers the request of getAllSources, or fails
SourcesAnswers(ok) ==
    /\ req.phase = "sources_wait"
    /\ Becomes(IF ok
               THEN Finish([Relay EXCEPT !.configCache =
                        Cache_set(@, "config", ConfigObject(platformConfig), now).items],
                        platformConfig)
               ELSE Finish(Logs(Lost(Relay, "sources"),
                                {"D&D Beyond config API error: 503"}), ConfigEmpty))
    /\ Answered(ok)

\* the token exchange answers the request of getBearerToken
ExchangeAnswers(outcome) ==
    /\ req.phase \in {"validate_exchange", "items_exchange", "generic_exchange"}
    /\ outcome \in ExchangeOutcomes(req.cookie)
    /\ LET w1 == TokenStored(Relay)
           message == IF outcome = "rejected" THEN "Invalid or expired Cobalt cookie"
                      ELSE "Auth service error: 503"
           w2 == [Logs(Lost(Relay, "exchange"), {message}) EXCEPT
                      !.req.rejected = (outcome = "rejected")]
       IN Becomes(
           CASE outcome = "ok" /\ req.phase = "validate_exchange" ->
                    Respond(w1, 200, ValidationBody(TRUE, Token(req.cookie)))
             [] outcome = "ok" /\ req.phase = "items_exchange" ->
                    [IssueCall(w1, "items") EXCEPT !.req.phase = "items_wait"]
             [] outcome = "ok" /\ req.phase = "generic_exchange" ->
                    [IssueCall(w1, "generic") EXCEPT !.req.phase = "generic_wait"]
             [] outcome # "ok" /\ req.phase = "validate_exchange" ->
                    Respond(w2, 401, [ValidationBody(FALSE, JsNull) EXCEPT
                                         !.message = message])
             [] OTHER -> ContentError(w2, message))
    /\ Answered(outcome # "unavailable")

\* fetchSpellsByClass continues once every class promise has settled
Settled(w) ==
    IF \A c \in ActiveClasses : w.req.classes[c].state = "done" THEN AfterFetch(w) ELSE w

\* the token exchange answers the request of one fetchSpellsByClass call
ClassExchangeAnswers(c, outcome) ==
    /\ req.phase = "fanout"
    /\ req.classes[c].state = "exchange"
    /\ outcome \in ExchangeOutcomes(req.cookie)
    /\ Becomes(IF outcome = "ok"
               THEN [IssueCall(TokenStored(Relay), "spells") EXCEPT
                         !.req.classes[c].state = "fetch"]
               ELSE Settled([Logs(Lost(Relay, "exchange"),
                                  {IF outcome = "rejected"
                                   THEN "Invalid or expired Cobalt cookie"
                                   ELSE "Auth service error: 503"}) EXCEPT
                         !.req.classes[c] = [state |-> "done", failed |-> TRUE,
                                             raw |-> <<>>, spells |-> <<>>],
                         !.req.rejected = @ \/ (outcome = "rejected")]))
    /\ Answered(outcome # "unavailable")

\* the spell endpoint of class c answers, or fails
ClassAnswers(c, ok) ==
    /\ req.phase = "fanout"
    /\ req.classes[c].state = "fetch"
    /\ Becomes(Settled([(IF ok THEN Relay ELSE Lost(Relay, "spells")) EXCEPT !.req.classes[c] =
           IF ok
           THEN [state |-> "done", failed |-> FALSE, raw |-> PlatformSpellsOf(c, req.cookie),
                 spells |-> enhanceClassResult(c, PlatformSpellsOf(c, req.cookie),
                                               buildSourceMap(req.mapConfig))]
           ELSE [state |-> "done", failed |-> TRUE, raw |-> <<>>, spells |-> <<>>]]))
    /\ Answered(ok)

\* a mutation of fetchAllItems: a failed item request counts as an empty list
ItemsAnswers_FailureIsEmpty(ok) ==
    /\ req.phase = "items_wait"
    /\ Becomes(IF ok THEN AfterFetch([Relay EXCEPT !.req.raw = PlatformItemsOf(req.cookie)])
               ELSE AfterFetch(Lost(Relay, "items")))
    /\ Answered(ok)

\* the item endpoint answers, or fails
ItemsAnswers(ok) ==
    /\ req.phase = "items_wait"
    /\ Becomes(IF ok THEN AfterFetch([Relay EXCEPT !.req.raw = PlatformItemsOf(req.cookie)])
               ELSE ContentError(Lost(Relay, "items"), "D&D Beyond API error: 503"))
    /\ Answered(ok)

\* the game-data endpoint of the generic branch answers, or fails
GenericAnswers(ok) ==
    /\ req.phase = "generic_wait"
    /\ Becomes(IF ok THEN Respond(Relay, 200, PlatformJson)
               ELSE ContentError(Lost(Relay, "generic"), "D&D Beyond API error: 503"))
    /\ Answered(ok)

\* the character service answers, fails, or the 30 s abort timer fires
CharacterAnswers(outcome) ==
    /\ req.phase = "character_wait"
    /\ Becomes(CASE outcome = "ok" -> Respond(Relay, 200, PlatformJson)
                 [] outcome = "timeout" ->
                        Respond(Logs(Lost(Relay, "character"),
                            {"Request timeout - D&D Beyond is taking too long to respond"}),
                            504, ErrorBody("API request failed",
                            "Request timeout - D&D Beyond is taking too long to respond"))
                 [] OTHER -> Respond(Logs(Lost(Relay, "character"),
                                          {"D&D Beyond API error: 503"}), 500,
                                     ErrorBody("API request failed",
                                               "D&D Beyond API error: 503")))
    /\ Answered(outcome = "ok")

\* time passes between two requests; a handler's awaits are short against the
\* model's time unit, and the clock starts with the first request
TickRelay ==
    /\ req.phase = "idle"
    /\ 0 < served
    /\ served < MaxReqs
    /\ now < RelayMaxTime
    /\ now' = now + 1
    /\ UNCHANGED <<cacheItems, last, varsFetch, varsRelay, varsAuth, varsKeys, varsUsers>>

\* bustCache is read by the items and spells branches only
BustFlags(endpoint) ==
    IF endpoint \in {"/api/content/items", "/api/content/spells"} THEN BOOLEAN ELSE {FALSE}

NextRelay ==
    \/ \E endpoint \in Endpoints : \E bustCache \in BustFlags(endpoint) :
           Receive(endpoint, bustCache)
    \/ \E ok \in BOOLEAN : ConfigAnswers(ok)
    \/ \E ok \in BOOLEAN : SourcesAnswers(ok)
    \/ \E outcome \in {"ok", "rejected", "unavailable"} : ExchangeAnswers(outcome)
    \/ \E c \in ActiveClasses, outcome \in {"ok", "rejected", "unavailable"} :
           ClassExchangeAnswers(c, outcome)
    \/ \E c \in ActiveClasses, ok \in BOOLEAN : ClassAnswers(c, ok)
    \/ \E ok \in BOOLEAN : ItemsAnswers(ok)
    \/ \E ok \in BOOLEAN : GenericAnswers(ok)
    \/ \E outcome \in {"ok", "fail", "timeout"} : CharacterAnswers(outcome)
    \/ TickRelay

SpecRelay == InitRelay /\ [][NextRelay]_vars

----------------------------------------------------------------------------
(* SpecLive: SpecRelay for one client, with the platform free never to answer
   an outbound request and the abort timer of makeAuthenticatedRequest as the
   only step the relay itself is bound to take *)

InitLive ==
    /\ IdleCache
    /\ IdleFetch
    /\ IdleRelay
    /\ IdleAuth
    /\ IdleKeys
    /\ IdleUsers

\* setTimeout(() => controller.abort(), 30000) fires: fetch rejects with an
\* AbortError, makeAuthenticatedRequest throws the timeout error, the handler
\* answers 504
AbortTimerFires ==
    /\ req.phase = "character_wait"
    /\ Becomes(Respond(Logs(Lost(Relay, "character"),
                            {"Request timeout - D&D Beyond is taking too long to respond"}), 504,
                       ErrorBody("API request failed",
                           "Request timeout - D&D Beyond is taking too long to respond")))
    /\ UNCHANGED <<now, cacheItems, last, varsFetch, served, platformConfig, client,
                   failures, varsAuth, varsKeys, varsUsers>>

NextLive ==
    \/ \E endpoint \in Endpoints : \E bustCache \in BustFlags(endpoint) :
           Receive(endpoint, bustCache)
    \/ \E ok \in BOOLEAN : ConfigAnswers(ok)
    \/ \E ok \in BOOLEAN : SourcesAnswers(ok)
    \/ \E outcome \in {"ok", "unavailable"} : ExchangeAnswers(outcome)
    \/ \E c \in ActiveClasses, outcome \in {"ok", "unavailable"} :
           ClassExchangeAnswers(c, outcome)
    \/ \E c \in ActiveClasses, ok \in BOOLEAN : ClassAnswers(c, ok)
    \/ \E ok \in BOOLEAN : ItemsAnswers(ok)
    \/ \E ok \in BOOLEAN : GenericAnswers(ok)
    \/ \E outcome \in {"ok", "fail"} : CharacterAnswers(outcome)
    \/ AbortTimerFires
    \/ TickRelay

\* the event loop runs a timer that is due; nothing obliges the platform to
\* answer
SpecLive == InitLive /\ [][NextLive]_vars /\ WF_vars(AbortTimerFires)

----------------------------------------------------------------------------
(* SpecBust: one client posts items and spells requests with and without
   bustCache and with varying sourceBookIds, so that the caches hold several
   keys *)

\* requests of one behaviour of SpecBust
MaxBustReqs == 3

\* the sourceBookIds the client of SpecBust posts
BustFilters == { <<>>, <<1>> }

InitBust ==
    /\ IdleCache
    /\ IdleFetch
    /\ IdleRelay
    /\ IdleAuth
    /\ IdleKeys
    /\ IdleUsers

\* a POST /api/content/items or /spells arrives and its handler runs up to
\* its first outbound request
ReceiveContent(endpoint, bustCache, sourceBookIds) ==
    /\ req.phase = "idle"
    /\ served < MaxBustReqs
    /\ served' = served + 1
    /\ Becomes(HandleRequest([Relay EXCEPT
           !.history = IF @ = <<>> THEN @ ELSE <<@[Len(@)]>>,
           !.req = [IdleReq EXCEPT !.phase = "received", !.endpoint = endpoint,
                                   !.logged = {endpoint},
                                   !.cookie = client.cookie, !.bustCache = bustCache,
                                   !.at = now, !.before = SnapshotOf(Relay),
                                   !.sourceBookIds = SortIds(sourceBookIds)]]))
    /\ UNCHANGED <<now, cacheItems, last, varsFetch, platformConfig, client, failures,
                   varsAuth, varsKeys, varsUsers>>

\* time passes between two requests
TickBust ==
    /\ req.phase = "idle"
    /\ 0 < served
    /\ served < MaxBustReqs
    /\ now < RelayMaxTime
    /\ now' = now + 1
    /\ UNCHANGED <<cacheItems, last, varsFetch, varsRelay, varsAuth, varsKeys, varsUsers>>

NextBust ==
    \/ \E endpoint \in {"/api/content/items", "/api/content/spells"} :
       \E bustCache \in BOOLEAN, sourceBookIds \in BustFilters :
           ReceiveContent(endpoint, bustCache, sourceBookIds)
    \/ \E ok \in BOOLEAN : ConfigAnswers(ok)
    \/ \E ok \in BOOLEAN : SourcesAnswers(ok)
    \/ \E outcome \in {"ok", "unavailable"} : ExchangeAnswers(outcome)
    \/ \E c \in ActiveClasses, outcome \in {"ok", "unavailable"} :
           ClassExchangeAnswers(c, outcome)
    \/ \E c \in ActiveClasses, ok \in BOOLEAN : ClassAnswers(c, ok)
    \/ \E ok \in BOOLEAN : ItemsAnswers(ok)
    \/ TickBust

SpecBust == InitBust /\ [][NextBust]_vars

----------------------------------------------------------------------------
(* SpecKeys: the cache key of the items and spells branches, computed for two
   sourceBookIds arrays of one credential *)

\* longest sourceBookIds array of SpecKeys
MaxIds == 2

\* the source ids of SpecKeys; "10" sorts before "2"
KeyIds == {1, 2, 10}

\* the sourceBookIds arrays a request body may carry
IdLists == UNION {[1..n -> KeyIds] : n \in 0..MaxIds}

InitKeys ==
    /\ IdleCache
    /\ IdleFetch
    /\ IdleRelay
    /\ IdleAuth
    /\ IdleUsers
    /\ keyPair \in [cookie : {CookieX, CookieB}, a : IdLists, b : IdLists,
                     keyA : {""}, keyB : {""}, computed : {FALSE}]

\* the handler computes cacheId for both request bodies
ComputeKeys ==
    /\ ~keyPair.computed
    /\ keyPair' = [keyPair EXCEPT !.keyA = ContentCacheId(keyPair.cookie, keyPair.a),
                                  !.keyB = ContentCacheId(keyPair.cookie, keyPair.b),
                                  !.computed = TRUE]
    /\ UNCHANGED <<now, cacheItems, last, varsFetch, varsRelay, varsAuth, varsUsers>>

NextKeys == ComputeKeys

SpecKeys == InitKeys /\ [][NextKeys]_vars

----------------------------------------------------------------------------
(* SpecAuth: callers call getBearerToken; the calls overlap at the await of
   the token exchange, as the per-class fetches of one fan-out do *)

InitAuth ==
    /\ IdleCache
    /\ IdleFetch
    /\ IdleRelay
    /\ IdleAuth
    /\ IdleKeys
    /\ IdleUsers

\* caller i calls getBearerToken(cookie): the cached token is returned, or
\* the exchange request is sent
CallGetBearerToken(i, cookie) ==
    /\ tokenCalls[i].state # "exchange"
    /\ Len(exchangeLog) + Cardinality({j \in Callers : tokenCalls[j].state = "exchange"})
           < MaxExchanges
    /\ LET cached == getBearerToken_lookup(authCache, cookie, now)
       IN /\ authCache' = cached.items
          /\ tokenCalls' = [tokenCalls EXCEPT ![i] =
                 [state |-> IF cached.exists THEN "returned" ELSE "exchange",
                  cookie |-> cookie, startedAt |-> now, logAtStart |-> Len(exchangeLog),
                  exchanged |-> ~cached.exists, token |-> cached.data]]
    /\ UNCHANGED <<now, cacheItems, last, varsFetch, configCache, itemsCache, spellsCache,
                   recentImports, req, history, served, platformConfig, client, failures,
                   exchangeLog, varsKeys, varsUsers>>

\* the auth service answers the exchange of caller i, or the request fails
ExchangeResponds(i, response) ==
    /\ tokenCalls[i].state = "exchange"
    /\ response \in ExchangeResponses(tokenCalls[i].cookie)
    /\ LET r == getBearerToken_answer(authCache, tokenCalls[i].cookie, response, now)
       IN /\ authCache' = r.items
          /\ tokenCalls' = [tokenCalls EXCEPT ![i].state = IF r.threw THEN "threw" ELSE "returned",
                                              ![i].token = r.token]
          /\ exchangeLog' = Append(exchangeLog,
                 [cookie |-> tokenCalls[i].cookie, ok |-> ~r.threw, token |-> r.token,
                  at |-> now, cacheChanged |-> r.items # authCache])
    /\ UNCHANGED <<now, cacheItems, last, varsFetch, configCache, itemsCache, spellsCache,
                   recentImports, req, history, served, platformConfig, client, failures,
                   varsKeys, varsUsers>>

\* time passes
TickAuth ==
    /\ now < AuthMaxTime
    /\ now' = now + 1
    /\ UNCHANGED <<cacheItems, last, varsFetch, varsRelay, varsAuth, varsKeys, varsUsers>>

AllExchangeResponses == UNION {ExchangeResponses(cookie) : cookie \in AuthCookies}

NextAuth ==
    \/ \E i \in Callers, cookie \in AuthCookies : CallGetBearerToken(i, cookie)
    \/ \E i \in Callers, response \in AllExchangeResponses : ExchangeResponds(i, response)
    \/ TickAuth

SpecAuth == InitAuth /\ [][NextAuth]_vars

----------------------------------------------------------------------------
(* SpecUsers: two users post items and spells requests; a request may arrive
   while the handler of another awaits the platform, and the event loop runs
   the continuation of either *)

\* requests of one behaviour of SpecUsers
MaxUserReqs == 3

\* the credentials of the two users
UserCookies == {CookieX, CookieY}

InitUsers ==
    /\ IdleCache
    /\ IdleFetch
    /\ IdleAuth
    /\ IdleKeys
    /\ IdleUsers
    /\ authCache = EmptyMap
    /\ configCache = EmptyMap
    /\ itemsCache = EmptyMap
    /\ spellsCache = EmptyMap
    /\ recentImports = NoRecentImports
    /\ req = IdleReq
    /\ history = <<>>
    /\ served = 0
    /\ platformConfig \in {ConfigFull, ConfigNameless}
    /\ client = [cookie |-> CookieX, sourceBookIds |-> <<>>]
    /\ failures = 0

\* a POST /api/content/items or /spells of a user arrives, while no handler
\* or one handler is in flight, and its handler runs up to its first outbound
\* request; a handler in flight is the one that waits
ReceiveUser(endpoint, cookie) ==
    LET other == IF req.phase = "idle" THEN parked ELSE req
        n == served + 1
    IN /\ req.phase = "idle" \/ parked.phase = "idle"
       /\ served < MaxUserReqs
       /\ served' = n
       /\ parked' = IF other.phase = "idle" THEN other
                    ELSE [other EXCEPT !.peers = @ \cup {n}]
       /\ Becomes(HandleRequest([Relay EXCEPT
              !.req = [IdleReq EXCEPT !.phase = "received", !.endpoint = endpoint,
                                      !.logged = {endpoint},
                                      !.cookie = cookie, !.at = now,
                                      !.before = SnapshotOf(Relay), !.n = n,
                                      !.peers = IF other.phase = "idle" THEN {}
                                                ELSE {other.n}]]))
       /\ UNCHANGED <<now, cacheItems, last, varsFetch, platformConfig, client, failures,
                      varsAuth, varsKeys>>

\* the event loop turns to the other handler in flight: the next answer of
\* the platform is the one that handler awaits
Switch ==
    /\ parked.phase # "idle"
    /\ req' = parked
    /\ parked' = req
    /\ UNCHANGED <<now, cacheItems, last, varsFetch, authCache, configCache, itemsCache,
                   spellsCache, recentImports, history, served, platformConfig, client,
                   failures, varsAuth, varsKeys>>

\* time passes while no handler is in flight
TickUsers ==
    /\ req.phase = "idle"
    /\ parked.phase = "idle"
    /\ 0 < served
    /\ served < MaxUserReqs
    /\ now < RelayMaxTime
    /\ now' = now + 1
    /\ UNCHANGED <<cacheItems, last, varsFetch, varsRelay, varsAuth, varsKeys, varsUsers>>

NextUsers ==
    \/ \E endpoint \in {"/api/content/items", "/api/content/spells"}, cookie \in UserCookies :
           ReceiveUser(endpoint, cookie)
    \/ Switch
    \/ \E ok \in BOOLEAN : ConfigAnswers(ok)
    \/ \E ok \in BOOLEAN : SourcesAnswers(ok)
    \/ \E outcome \in {"ok", "unavailable"} : ExchangeAnswers(outcome)
    \/ \E c \in ActiveClasses, outcome \in {"ok", "unavailable"} :
           ClassExchangeAnswers(c, outcome)
    \/ \E c \in ActiveClasses, ok \in BOOLEAN : ClassAnswers(c, ok)
    \/ \E ok \in BOOLEAN : ItemsAnswers(ok)
    \/ TickUsers

SpecUsers == InitUsers /\ [][NextUsers]_vars

----------------------------------------------------------------------------
(* Claims about the Cache *)

\* C3 as stated: an entry added at time T is reported by exists(key) as
\* existing when read at T+d with d < ttl and as not existing when d >= ttl
\* (d = ttl included), and the read that observes expiry removes the entry.
C3_AsStated ==
    (last.op = "exists" /\ last.ts # NoTs) =>
        /\ last.exists <=> (last.at - last.ts < TtlUnits)
        /\ ~last.exists => last.key \notin DOMAIN cacheItems

\* C3 amended: add stamps the entry with the time of the call; exists(key)
\* reports the entry as existing (with the data added) when read at T+d with
\* d <= ttl and as not existing when d > ttl, and the read that observes
\* expiry removes the entry from the Map.
C3_CacheTtl ==
    /\ (last.op = "add" /\ last.stored) =>
           /\ last.key \in DOMAIN cacheItems
           /\ cacheItems[last.key] = [data |-> last.data, timestamp |-> last.at]
    /\ (last.op = "exists" /\ last.ts # NoTs) =>
           /\ last.exists <=> (last.at - last.ts <= TtlUnits)
           /\ last.exists => /\ last.key \in DOMAIN cacheItems
                             /\ last.ret = cacheItems[last.key].data
           /\ ~last.exists => last.key \notin DOMAIN cacheItems

\* C3 witness: a read past the ttl found the entry expired and removed it
C3_Witness ==
    /\ last.op = "exists" /\ last.ts # NoTs
    /\ last.at - last.ts > TtlUnits
    /\ ~last.exists
    /\ last.key \notin DOMAIN cacheItems

\* C4: add(key, []) never creates an entry: the Map (so also its size) is
\* left as it was, and when key had no valid entry before the call a
\* following exists(key) reports not-exists.
C4_NoEmptyPayload ==
    (last.op = "add" /\ IsEmptyArray(last.data)) =>
        /\ ~last.stored
        /\ Cache_size(cacheItems) = last.sizeBefore
        /\ StoredTs(cacheItems, last.key) = last.ts
        /\ (last.ts = NoTs \/ isExpired(last.ts, last.at, TtlUnits)) =>
               ~Cache_exists(cacheItems, last.key, now, TtlUnits).exists

\* C4 witness: add(key, []) was called on a key without an entry, in a cache
\* that holds another entry
C4_Witness ==
    /\ last.op = "add" /\ IsEmptyArray(last.data)
    /\ last.ts = NoTs
    /\ Cache_size(cacheItems) = 1

----------------------------------------------------------------------------
(* Claims about the fetchers *)

\* the classes whose result holds a spell of this name
Holders(name) ==
    {c \in ActiveClasses :
        \E i \in 1..Len(classResults[c].spells) : classResults[c].spells[i].name = name}

\* the names in the class results
ResultNames ==
    UNION {{classResults[c].spells[i].name : i \in 1..Len(classResults[c].spells)} :
           c \in ActiveClasses}

RawCited ==
    IF fetchOut.kind = "items"
    THEN UNION {Range(ItemSources(rawItems[i])) : i \in 1..Len(rawItems)}
    ELSE UNION {UNION {Range(SpellSources(classResults[c].raw[i])) :
                       i \in 1..Len(classResults[c].raw)} : c \in ActiveClasses}

\* the source ids an entry of the returned array cites
EntrySources(entry) ==
    IF fetchOut.kind = "items" THEN ItemSources(entry) ELSE SpellSources(entry)

CountedCited ==
    IF fetchOut.kind = "items" THEN RawCited
    ELSE UNION {Range(SpellSources(fetchOut.merged[i])) : i \in 1..Len(fetchOut.merged)}

C5_ExcludedSource ==
    (fetchOut.done /\ ~fetchOut.threw) =>
        \A i \in 1..Len(fetchOut.entries) : 39 \notin Range(EntrySources(fetchOut.entries[i]))

\* C5 witness: the filter names source 39, the raw response cites it, and the
\* fetcher returned a non-empty array
C5_Witness ==
    /\ fetchOut.done /\ ~fetchOut.threw
    /\ 39 \in Range(fetchIn.sourceBookIds)
    /\ 39 \in RawCited
    /\ fetchOut.entries # <<>>

\* C8: enhanceItemData gives rarityName "Mundane" to an item whose rarity id is
\* 0, null, undefined or not a key of the rarity map, and never gives "Unknown".
C8_RarityDefault ==
    (fetchOut.done /\ ~fetchOut.threw /\ fetchOut.kind = "items") =>
        \A i \in 1..Len(fetchOut.keptRaw) :
            /\ (RarityId(fetchOut.keptRaw[i]) \in {"0", "null", "undefined"}
                \/ RarityId(fetchOut.keptRaw[i]) \notin DOMAIN RARITY_MAP)
                  => fetchOut.enhanced[i].rarityName = "Mundane"
            /\ fetchOut.enhanced[i].rarityName # "Unknown"

\* C8 witness: items with rarity 0, with an unmapped rarity and with a null
\* rarity were enhanced
C8_Witness ==
    /\ fetchOut.done /\ ~fetchOut.threw /\ fetchOut.kind = "items"
    /\ \E i, j \in 1..Len(fetchOut.keptRaw) :
          /\ fetchOut.keptRaw[i].rarity = "99"
          /\ fetchOut.keptRaw[j].rarity = "null"
          /\ fetchOut.enhanced[i].rarityName = "Mundane"

----------------------------------------------------------------------------
(* Claims about the relay *)

ContentEndpoints == {"/api/content/items", "/api/content/spells"}

\* CACHE_TTL of the cache an items or spells request is served from
ContentTtl(endpoint) ==
    IF endpoint = "/api/content/items" THEN CACHE_TTL.ITEMS ELSE CACHE_TTL.SPELLS

\* history[i] and history[i + 1] are the same items or spells request, posted
\* twice in a row with a credential the platform accepts, without bustCache,
\* the second within the cache TTL of the first response
TwiceInARow(i) ==
    /\ i \in 1..(Len(history) - 1)
    /\ history[i].endpoint \in ContentEndpoints
    /\ history[i + 1].endpoint = history[i].endpoint
    /\ history[i].cookie \in AcceptedCookies
    /\ history[i + 1].cookie = history[i].cookie
    /\ history[i + 1].sourceBookIds = history[i].sourceBookIds
    /\ ~history[i].bustCache
    /\ ~history[i + 1].bustCache
    /\ history[i + 1].at - history[i].doneAt <= ContentTtl(history[i].endpoint)

\* C6 as stated: of two such requests in a row, the second is answered with
\* the body of the first and issues no outbound platform request.
C6_AsStated ==
    \A i \in 1..(Len(history) - 1) :
        TwiceInARow(i) =>
            /\ history[i + 1].body = history[i].body
            /\ history[i + 1].calls = NoCalls

\* C6: when the first of two such requests was answered 200 with a non-empty
\* array that the relay fetched from the platform for it, the second is
\* answered 200 with the same body and issues no outbound platform request
\* (no token exchange, no config fetch, no catalog fetch).
C6_CacheHitShortcut ==
    \A i \in 1..(Len(history) - 1) :
        ( /\ TwiceInARow(i)
          /\ history[i].status = 200
          /\ ~history[i].hit
          /\ history[i].body.type = "array"
          /\ history[i].body.val # <<>> )
        => /\ history[i + 1].status = 200
           /\ history[i + 1].body = history[i].body
           /\ history[i + 1].calls = NoCalls

\* a spells request was fetched and answered with spells at time 0, and the
\* same request two time units later, at the edge of the TTL, was served from
\* the cache
C6_Witness ==
    /\ Len(history) = 2
    /\ TwiceInARow(1)
    /\ history[1].endpoint = "/api/content/spells"
    /\ history[1].status = 200
    /\ ~history[1].hit
    /\ history[1].body.type = "array"
    /\ Len(history[1].body.val) > 0
    /\ history[1].calls # NoCalls
    /\ history[2].at - history[1].doneAt = CACHE_TTL.SPELLS
    /\ history[2].hit
    /\ history[2].body = history[1].body
    /\ history[2].calls = NoCalls

\* the spell fetch of class c failed in the request answered by h
ClassFetchFailed(h, c) == h.classes[c].state = "done" /\ h.classes[c].failed

\* class c answered the request answered by h with spells
ClassSucceeded(h, c) ==
    h.classes[c].state = "done" /\ ~h.classes[c].failed /\ h.classes[c].raw # <<>>

\* C7 as stated: when the spell fetch of one class fails while another class
\* succeeds with spells, the relay answers 200 with the merged array of the
\* classes that succeeded, the failed class contributing an empty list.
C7_AsStated ==
    \A i \in 1..Len(history) :
        LET h == history[i] IN
        ( /\ h.endpoint = "/api/content/spells"
          /\ \E c \in ActiveClasses : ClassFetchFailed(h, c)
          /\ \E c \in ActiveClasses : ClassSucceeded(h, c) )
        => /\ h.status = 200
           /\ h.body.type = "array"
           /\ \A c \in ActiveClasses : ClassFetchFailed(h, c) => h.classes[c].spells = <<>>
           /\ \E allConfig \in {ConfigEmpty, ConfigFull, ConfigNameless} :
                  h.body.val = fetchAllSpellsFrom([c \in ActiveClasses |-> h.classes[c].spells],
                                                  h.sourceBookIds, allConfig).entries

\* C9 as stated: on validate-cookie, content/items, content/spells and the
\* generic content endpoint, a request whose token exchange the platform
\* rejected is answered 401.
C9_AsStated ==
    \A i \in 1..Len(history) :
        ( /\ history[i].endpoint \in {"/api/validate-cookie", "/api/content/items",
                                      "/api/content/spells", "/api/content/other"}
          /\ history[i].rejected )
        => history[i].status = 401

\* C10 as stated: on validate-cookie, character/* and content/*, a request
\* whose cobaltCookie is missing, not a string, empty, shorter than 20 or
\* longer than 2000 characters is answered 400 and issues no outbound
\* platform request.
C10_AsStated ==
    \A i \in 1..Len(history) :
        ~validateCobaltCookie(history[i].cookie).next
        => /\ history[i].status = 400
           /\ history[i].calls = NoCalls

----------------------------------------------------------------------------
(* Claims about getBearerToken *)

\* the most recent of the first n answered exchanges for the credential, 0 if none
LastExchange(cookie, n) ==
    LET S == {k \in 1..n : exchangeLog[k].cookie = cookie}
    IN IF S = {} THEN 0 ELSE CHOOSE k \in S : \A j \in S : j <= k

\* the calls made after an exchange for their credential failed, none answered since
CallsAfterFailure ==
    {i \in Callers : /\ tokenCalls[i].state # "idle"
                     /\ LastExchange(tokenCalls[i].cookie, tokenCalls[i].logAtStart) # 0
                     /\ ~exchangeLog[LastExchange(tokenCalls[i].cookie,
                                                  tokenCalls[i].logAtStart)].ok}

\* authCache holds nothing but tokens of successful exchanges, each under the
\* hash of its credential, and no failed exchange changed authCache
OnlyGrantedTokensCached ==
    /\ \A id \in DOMAIN authCache :
           \E k \in 1..Len(exchangeLog) :
               /\ id = getCacheId(exchangeLog[k].cookie)
               /\ exchangeLog[k].ok
               /\ exchangeLog[k].token = authCache[id].data
               /\ ~Falsy(authCache[id].data)
    /\ \A k \in 1..Len(exchangeLog) : ~exchangeLog[k].ok => ~exchangeLog[k].cacheChanged

\* C11 as stated: authCache holds an entry for a credential only if an exchange
\* for it succeeded with a non-empty token, a failed exchange leaves authCache
\* unchanged, and the next getBearerToken call for that credential performs a
\* new exchange
C11_AsStated ==
    /\ OnlyGrantedTokensCached
    /\ \A i \in CallsAfterFailure : tokenCalls[i].exchanged

\* C11: authCache holds an entry for a credential only if an exchange for it
\* succeeded with a non-empty token, a failed exchange leaves authCache
\* unchanged, and the next getBearerToken call for that credential performs a
\* new exchange unless an exchange for it that succeeded no longer than the
\* AUTH ttl before the call (one overlapping the failed one) left its token
C11_FailedExchangeNotCached ==
    /\ OnlyGrantedTokensCached
    /\ \A i \in CallsAfterFailure :
           \/ tokenCalls[i].exchanged
           \/ \E k \in 1..tokenCalls[i].logAtStart :
                  /\ exchangeLog[k].cookie = tokenCalls[i].cookie
                  /\ exchangeLog[k].ok
                  /\ tokenCalls[i].startedAt - exchangeLog[k].at <= CACHE_TTL.AUTH

\* an exchange failed with nothing cached, the next call exchanged anew, and
\* its token is the one authCache holds
C11_Witness ==
    \E i \in CallsAfterFailure :
        /\ tokenCalls[i].exchanged
        /\ tokenCalls[i].state = "returned"
        /\ getCacheId(tokenCalls[i].cookie) \in DOMAIN authCache
        /\ authCache[getCacheId(tokenCalls[i].cookie)].data = tokenCalls[i].token
        /\ \A k \in 1..tokenCalls[i].logAtStart : ~exchangeLog[k].ok

\* the calls of the credential of exchange k that started after it was answered
CallsAfter(k) ==
    {i \in Callers : /\ tokenCalls[i].state # "idle"
                     /\ tokenCalls[i].cookie = exchangeLog[k].cookie
                     /\ tokenCalls[i].logAtStart >= k}

\* the successful exchanges
Granted == {k \in 1..Len(exchangeLog) : exchangeLog[k].ok}

\* C12 as stated: after getBearerToken succeeded and cached a token, every call
\* for the credential started within the AUTH ttl returns that same token
\* without an exchange, and the first call after the ttl has elapsed issues a
\* new exchange
C12_AsStated ==
    \A k \in Granted : \A i \in CallsAfter(k) :
        LET age == tokenCalls[i].startedAt - exchangeLog[k].at
        IN /\ age <= CACHE_TTL.AUTH =>
                  ~tokenCalls[i].exchanged /\ tokenCalls[i].token = exchangeLog[k].token
           /\ (/\ age > CACHE_TTL.AUTH
               /\ \A j \in (k + 1)..tokenCalls[i].logAtStart :
                      exchangeLog[j].cookie = exchangeLog[k].cookie
                          => exchangeLog[j].at <= exchangeLog[k].at + CACHE_TTL.AUTH)
                  => tokenCalls[i].exchanged

\* C12: a call for a credential whose most recent successful exchange was
\* answered no longer than the AUTH ttl before the call returns the token of
\* that exchange without an exchange of its own; a call started later than
\* that, or with no successful exchange before it, issues a new exchange
C12_TokenReuse ==
    \A i \in Callers : tokenCalls[i].state # "idle" =>
        LET S == {k \in Granted : k <= tokenCalls[i].logAtStart
                                   /\ exchangeLog[k].cookie = tokenCalls[i].cookie}
            k == CHOOSE x \in S : \A y \in S : y <= x
        IN IF S # {} /\ tokenCalls[i].startedAt - exchangeLog[k].at <= CACHE_TTL.AUTH
           THEN ~tokenCalls[i].exchanged /\ tokenCalls[i].token = exchangeLog[k].token
           ELSE tokenCalls[i].exchanged

\* one call returned the cached token at the very end of its ttl, another
\* started after the ttl had elapsed and sent a new exchange
C12_Witness ==
    \E k \in Granted : \E i, j \in CallsAfter(k) :
        /\ tokenCalls[i].startedAt - exchangeLog[k].at = CACHE_TTL.AUTH
        /\ ~tokenCalls[i].exchanged
        /\ tokenCalls[i].token = exchangeLog[k].token
        /\ tokenCalls[j].startedAt - exchangeLog[k].at > CACHE_TTL.AUTH
        /\ tokenCalls[j].exchanged

----------------------------------------------------------------------------
(* Claims about bustCache *)

\* the request a step belongs to: the one being handled, or the one that
\* arrives (and may be answered) in the step
StepRequest ==
    IF req.phase # "idle" THEN req
    ELSE IF req'.phase # "idle" THEN req'
    ELSE history'[Len(history')]

\* the step handles a request, or a request arrives in it
RequestStep == req.phase # "idle" \/ served' # served

\* every entry of the Map is still there afterwards, and unchanged unless it
\* is the one under key
EntriesKept(before, after, key) ==
    \A id \in DOMAIN before :
        id \in DOMAIN after /\ (id # key => after[id] = before[id])

\* outbound requests of an answered request
OutboundCalls(h) ==
    h.calls.exchange + h.calls.config + h.calls.items + h.calls.spells
        + h.calls.generic + h.calls.character

\* the answered bustCache requests were not served from the cache and went
\* to the platform
BustFetchedAfresh ==
    \A i \in 1..Len(history) :
        history[i].bustCache => ~history[i].hit /\ OutboundCalls(history[i]) > 0

\* a step of a bustCache request removes no entry of itemsCache or
\* spellsCache and changes none but the one under the request's own key
BustFrame ==
    (RequestStep /\ StepRequest.bustCache) =>
        LET key == ContentCacheId(StepRequest.cookie, StepRequest.sourceBookIds)
        IN IF StepRequest.endpoint = "/api/content/items"
           THEN EntriesKept(itemsCache, itemsCache', key) /\ spellsCache' = spellsCache
           ELSE EntriesKept(spellsCache, spellsCache', key) /\ itemsCache' = itemsCache

\* a request without bustCache that arrives after a bustCache request was
\* answered, for a key whose entry is within its ttl, is answered with that entry
HitAfterBust ==
    (/\ served' # served
     /\ ~StepRequest.bustCache
     /\ history # <<>>
     /\ history[Len(history)].bustCache) =>
        LET key == ContentCacheId(StepRequest.cookie, StepRequest.sourceBookIds)
            cache == IF StepRequest.endpoint = "/api/content/items"
                     THEN itemsCache ELSE spellsCache
        IN (key \in DOMAIN cache /\ now - cache[key].timestamp <= DataTtl) =>
               /\ req'.phase = "idle"
               /\ history'[Len(history')].hit
               /\ history'[Len(history')].status = 200
               /\ history'[Len(history')].body = cache[key].data

----------------------------------------------------------------------------
(* Claims about the cache key *)

\* the set of ids an array denotes
IdSet(ids) == {ids[i] : i \in 1..Len(ids)}

\* C14 as stated: for one credential two requests get the same cache key
\* exactly when their sourceBookIds denote the same set of ids, and an absent
\* or empty filter gives the bare credential hash, which no filtered key equals
C14_AsStated ==
    keyPair.computed =>
        /\ (keyPair.keyA = keyPair.keyB) <=> (IdSet(keyPair.a) = IdSet(keyPair.b))
        /\ keyPair.a = <<>> => keyPair.keyA = getCacheId(keyPair.cookie)

----------------------------------------------------------------------------
(* Claims about failures of the platform *)

\* the answered items requests whose token exchange or item request failed
ItemsUpstreamFailed ==
    {i \in 1..Len(history) : /\ history[i].endpoint = "/api/content/items"
                             /\ history[i].lost \cap {"exchange", "items"} # {}}

\* C15 as stated: when the token exchange or the item request fails,
\* fetchAllItems rejects, the relay answers with an error status, and
\* itemsCache and recentImports.items are exactly as before the request
C15_AsStated ==
    \A i \in ItemsUpstreamFailed :
        /\ history[i].status \notin 200..299
        /\ history[i].body.type = "error"
        /\ history[i].after.itemsCache = history[i].before.itemsCache
        /\ history[i].after.recentImports.items = history[i].before.recentImports.items

\* C15: when the token exchange or the item request fails, fetchAllItems
\* rejects, the relay answers with an error status, recentImports.items is as
\* before the request, and itemsCache is as the request's own cache lookup
\* left it: as before, less the entry under the request's key if that entry
\* had expired and bustCache was not set
C15_ItemsFailureStoresNothing ==
    \A i \in ItemsUpstreamFailed :
        LET h == history[i]
        IN /\ h.status \notin 200..299
           /\ h.body.type = "error"
           /\ h.after.recentImports.items = h.before.recentImports.items
           /\ h.after.itemsCache =
                  IF h.bustCache THEN h.before.itemsCache
                  ELSE Cache_exists(h.before.itemsCache,
                                    ContentCacheId(h.cookie, h.sourceBookIds),
                                    h.at, CACHE_TTL.ITEMS).items

\* an items request failed upstream while itemsCache held an entry and
\* recentImports.items a bundle; it was answered 500 and both are as before
C15_Witness ==
    \E i \in ItemsUpstreamFailed :
        /\ history[i].status = 500
        /\ DOMAIN history[i].before.itemsCache # {}
        /\ history[i].before.recentImports.items.done
        /\ history[i].after.itemsCache = history[i].before.itemsCache
        /\ history[i].after.recentImports = history[i].before.recentImports

\* C16 as stated: when the fetch of every class fails, fetchAllSpells throws
\* and the relay answers with an error, not with 200 and an empty array
C16_AsStated ==
    \A i \in 1..Len(history) :
        ( /\ history[i].endpoint = "/api/content/spells"
          /\ \A c \in ActiveClasses : ClassFetchFailed(history[i], c) )
        => /\ history[i].status \notin 200..299
           /\ history[i].body.type = "error"

\* the step in which the config request of fetchDDBConfig fails
ConfigFailStep == req.phase \in {"config_wait", "sources_wait"} /\ failures' # failures

\* the failed config request stores nothing in configCache and rejects
\* nothing: buildSourceMap goes on with an empty map, getAllSources with no
\* sources
ConfigFailureDegrades ==
    ConfigFailStep =>
        /\ configCache' = configCache
        /\ IF req.phase = "config_wait"
           THEN /\ req'.phase \in {"items_exchange", "items_wait", "fanout"}
                /\ req'.mapConfig = ConfigEmpty
                /\ DOMAIN buildSourceMap(req'.mapConfig) = {}
           ELSE LET h == history'[Len(history')]
                    bundle == IF h.endpoint = "/api/content/items"
                              THEN h.after.recentImports.items
                              ELSE h.after.recentImports.spells
                IN req'.phase = "idle" /\ bundle.done /\ ~bundle.threw
                   /\ bundle.allSources = <<>>

\* the answered items and spells requests whose buildSourceMap got no config
\* and whose fetcher ran to its return
CompletedWithoutConfig ==
    {i \in 1..Len(history) :
        /\ history[i].endpoint \in ContentEndpoints
        /\ "config" \in history[i].lost
        /\ history[i].endpoint = "/api/content/items"
               => history[i].lost \cap {"exchange", "items"} = {}}

\* the source labels of such a request are the fallback labels
FallbackLabels ==
    \A i \in CompletedWithoutConfig :
        LET h == history[i]
            isItems == h.endpoint = "/api/content/items"
            bundle == IF isItems THEN h.after.recentImports.items
                      ELSE h.after.recentImports.spells
            ids(e) == IF isItems THEN ItemSources(e) ELSE SpellSources(e)
        IN /\ bundle.done
           /\ ~bundle.threw
           /\ \A k \in 1..Len(bundle.entries) :
                  /\ bundle.entries[k].sourceBook =
                         extractSourceBook(ids(bundle.entries[k]), buildSourceMap(ConfigEmpty))
                  /\ \A n \in 1..Len(bundle.entries[k].sourceBook) :
                         bundle.entries[k].sourceBook[n] \in
                             {"Unknown Source"} \cup {"Source " \o ToString(id) : id \in 1..39}

TimedEndpoints == {"/api/character/x", "/api/content/items", "/api/content/spells",
                   "/api/validate-cookie"}

\* C18 as stated: every request to /api/character/*, /api/content/items,
\* /api/content/spells and /api/validate-cookie eventually gets a response,
\* even if an upstream call never answers
C18_AsStated ==
    \A endpoint \in TimedEndpoints :
        (req.phase # "idle" /\ req.endpoint = endpoint) ~> (req.phase = "idle")

\* C19 as stated: on validate-cookie and content/*, a request whose token
\* exchange was unreachable or answered a non-2xx status other than 401/403
\* is answered 500 or 504, never 401
C19_AsStated ==
    \A i \in 1..Len(history) :
        ( /\ history[i].endpoint \in {"/api/validate-cookie", "/api/content/items",
                                      "/api/content/spells", "/api/content/other"}
          /\ "exchange" \in history[i].lost
          /\ ~history[i].rejected )
        => history[i].status \in {500, 504}

\* C20 as stated: every response with a non-2xx status has a JSON body with
\* the string fields error and message
C20_AsStated ==
    \A i \in 1..Len(history) :
        history[i].status \notin 200..299
        => /\ history[i].body.type = "error"
           /\ history[i].body.error # ""
           /\ history[i].body.message # ""

----------------------------------------------------------------------------
(* Claims about the combined report *)

\* the answered items and spells requests whose fetchAllItems / fetchAllSpells
\* call returned: not served from the cache, and no token exchange or item
\* request of an items request failed
FetchReturned ==
    {i \in 1..Len(history) :
        /\ history[i].endpoint \in ContentEndpoints
        /\ ~history[i].hit
        /\ ~getCacheIdThrows(history[i].cookie)
        /\ history[i].endpoint = "/api/content/items"
               => history[i].lost \cap {"exchange", "items"} = {}}

\* the bundle the handler of an answered request stored in recentImports
OwnBundle(h) ==
    IF h.endpoint = "/api/content/items" THEN h.after.recentImports.items
    ELSE h.after.recentImports.spells

\* C21 as stated: an items or spells request whose fetch succeeded is answered
\* 200 with the fetched array, whatever recentImports holds and whether or not
\* generateCombinedReport is invoked or throws
C21_AsStated ==
    \A i \in FetchReturned :
        /\ history[i].status = 200
        /\ history[i].body = JsArray(OwnBundle(history[i]).entries)

----------------------------------------------------------------------------
(* Claims about empty results and populated entries *)

\* the step is a call add(key, []) on a key whose entry is within its ttl
EmptyAddOnValidEntry ==
    /\ last'.op = "add"
    /\ now' = now
    /\ IsEmptyArray(last'.data)
    /\ last'.key \in DOMAIN cacheItems
    /\ ~isExpired(cacheItems[last'.key].timestamp, now, TtlUnits)

\* C27: add(key, []) on a key that holds a valid non-empty entry leaves the
\* entry's data and timestamp (and the rest of the Map) unchanged, and
\* exists(key) called after it still returns the earlier data.
C27_EmptyAddKeepsEntry ==
    [][EmptyAddOnValidEntry =>
          /\ cacheItems' = cacheItems
          /\ Cache_exists(cacheItems', last'.key, now', TtlUnits) =
                 [exists |-> TRUE, data |-> cacheItems[last'.key].data, items |-> cacheItems]
          /\ ~IsEmptyArray(cacheItems[last'.key].data)]_vars

\* add(key, []) has just been called, one time unit after the entry under
\* key was stored, and the entry is as it was
C27_Witness ==
    /\ last.op = "add"
    /\ IsEmptyArray(last.data)
    /\ ~last.stored
    /\ last.ts # NoTs
    /\ last.ts < last.at
    /\ ~isExpired(last.ts, last.at, TtlUnits)
    /\ last.key \in DOMAIN cacheItems
    /\ cacheItems[last.key].timestamp = last.ts
    /\ cacheItems[last.key].data.type = "array"

----------------------------------------------------------------------------
(* Claims about nameless spells *)

\* the raw records of the class responses that carry neither definition.name
\* nor name, as (class, index) pairs
NamelessRaw ==
    {p \in ActiveClasses \X (1..MaxPerClass) :
        /\ p[2] <= Len(classResults[p[1]].raw)
        /\ LET raw == classResults[p[1]].raw[p[2]]
           IN raw.name = "" /\ (raw.definition.present => raw.definition.name = "")}

\* C28 as stated: a raw spell record with no resolvable name does not appear
\* in the array fetchAllSpells returns, each such record increments the
\* skipped count, and no entry stands for nameless records under a shared
\* placeholder name
C28_AsStated ==
    (fetchOut.done /\ fetchOut.kind = "spells") =>
        /\ \A p \in NamelessRaw : \A k \in 1..Len(fetchOut.merged) :
               fetchOut.merged[k].id # classResults[p[1]].raw[p[2]].id
        /\ SkippedCount(Flatten([c \in ActiveClasses |-> classResults[c].spells],
                                ActiveClasses)) = Cardinality(NamelessRaw)
        /\ \A k \in 1..Len(fetchOut.merged) : fetchOut.merged[k].name # "Unknown Spell"

----------------------------------------------------------------------------
(* Claims about the order of the merge *)

\* the first class, in the order of SPELLCASTING_CLASSES, whose result holds
\* a spell of this name
FirstHolder(name) == CHOOSE c \in Holders(name) : \A d \in Holders(name) : c <= d

\* where the result of class c first holds a spell of this name
FirstIndex(c, name) ==
    CHOOSE i \in 1..Len(classResults[c].spells) :
        /\ classResults[c].spells[i].name = name
        /\ \A j \in 1..(i - 1) : classResults[c].spells[j].name # name

\* C25: whatever the order in which the per-class fetches complete, the
\* array fetchAllSpells builds is the one determined by the class results in
\* the order of SPELLCASTING_CLASSES: the entry of a name carries the id,
\* sources, definition and source label of the record of the first class of
\* that order that returned it, its class list is the sorted list of the
\* classes that returned it, and the entries stand in the order in which
\* their names first appear in that order.
C25_MergeOrderIndependent ==
    (fetchOut.done /\ fetchOut.kind = "spells") =>
        /\ {fetchOut.merged[k].name : k \in 1..Len(fetchOut.merged)} = ResultNames
        /\ \A k \in 1..Len(fetchOut.merged) :
               LET e == fetchOut.merged[k]
                   c == FirstHolder(e.name)
                   r == classResults[c].spells[FirstIndex(c, e.name)]
               IN /\ e.id = r.id
                  /\ e.sources = r.sources
                  /\ e.definition = r.definition
                  /\ e.sourceBook = r.sourceBook
                  /\ Range(e.availableToClasses) =
                         {SPELLCASTING_CLASSES[d].name : d \in Holders(e.name)}
                  /\ e.availableToClasses = SortNames(e.availableToClasses)
        /\ \A k, l \in 1..Len(fetchOut.merged) :
               k < l =>
                   LET ck == FirstHolder(fetchOut.merged[k].name)
                       cl == FirstHolder(fetchOut.merged[l].name)
                   IN \/ ck < cl
                      \/ /\ ck = cl
                         /\ FirstIndex(ck, fetchOut.merged[k].name)
                                < FirstIndex(cl, fetchOut.merged[l].name)

\* the second class settled before the first (Barbarian before Wizard), both
\* returned "Aid", and the entry "Aid" carries the id of the first class's record
C25_Witness ==
    /\ fetchOut.done /\ fetchOut.kind = "spells"
    /\ \E p, q \in 1..Len(fetchIn.settled) :
          p < q /\ fetchIn.settled[p] = FirstClass + 1 /\ fetchIn.settled[q] = FirstClass
    /\ \E i \in 1..Len(classResults[FirstClass].spells),
          j \in 1..Len(classResults[FirstClass + 1].spells),
          k \in 1..Len(fetchOut.merged) :
          /\ classResults[FirstClass].spells[i].name = "Aid"
          /\ classResults[FirstClass + 1].spells[j].name = "Aid"
          /\ fetchOut.merged[k].name = "Aid"
          /\ fetchOut.merged[k].id = classResults[FirstClass].spells[i].id
          /\ fetchOut.merged[k].id # classResults[FirstClass + 1].spells[j].id

----------------------------------------------------------------------------
(* Claims about enhancement *)

\* every property the raw record carries is on the enhanced record with the
\* same value; "" and 0 stand for a property the raw record does not carry
KeepsFields(raw, enhanced) ==
    /\ raw.id # 0 => enhanced.id = raw.id
    /\ raw.name # "" => enhanced.name = raw.name
    /\ raw.sources.defined => enhanced.sources = raw.sources
    /\ raw.definition.present => enhanced.definition = raw.definition

\* C29 as stated: every field of a raw item or spell record is on the record
\* enhanceItemData / enhanceSpellData returns, and on the final merged spell
\* entry, with the same value; enhancement only adds fields
C29_AsStated ==
    /\ (fetchOut.done /\ ~fetchOut.threw /\ fetchOut.kind = "items") =>
           \A i \in 1..Len(fetchOut.keptRaw) :
               /\ KeepsFields(fetchOut.keptRaw[i], fetchOut.enhanced[i])
               /\ fetchOut.enhanced[i].rarity = fetchOut.keptRaw[i].rarity
    /\ \A c \in ActiveClasses : \A i \in 1..Len(classResults[c].raw) :
           KeepsFields(classResults[c].raw[i], classResults[c].spells[i])
    /\ (fetchOut.done /\ fetchOut.kind = "spells") =>
           \A k \in 1..Len(fetchOut.merged) :
               LET c == FirstHolder(fetchOut.merged[k].name)
               IN KeepsFields(classResults[c].raw[FirstIndex(c, fetchOut.merged[k].name)],
                              fetchOut.merged[k])

----------------------------------------------------------------------------
(* Claims about the token exchange of a fan-out *)

\* C30 as stated: a spells request whose fetchAllSpells call starts with no
\* cached token for the credential sends at most one token exchange to the
\* auth service, and the class fetches that follow it carry on with the
\* token it obtained
C30_AsStated ==
    \A i \in 1..Len(history) :
        history[i].endpoint = "/api/content/spells" => history[i].calls.exchange <= 1

----------------------------------------------------------------------------
(* Claims about the credential on outbound requests *)

\* C23 as stated: every outbound request of the relay other than the token
\* exchange and the config request - the item, spell, generic game-data (of a
\* request that carries a cookie) and character-service requests - carries
\* Authorization: Bearer <token> and no Cookie: CobaltSession header
C23_AsStated ==
    \A i \in 1..Len(history) : \A s \in history[i].sent :
        ( \/ s.kind \in {"items", "spells", "character"}
          \/ s.kind = "generic" /\ CookieTruthy(history[i].cookie) )
        => /\ s.authorization.type = "string"
           /\ s.authorization.val # <<>>
           /\ ~s.cookie

----------------------------------------------------------------------------
(* Claims about the redaction of the credential *)

\* the cobaltCookie values that are credentials: non-empty strings
Credentials == {c \in Cookies : c.type = "string" /\ c.len > 0}

\* the cache ids a cache would hold if an id carried the cookie itself
RawIds ==
    {CookieString(c) : c \in Credentials}
    \cup {CookieString(c) \o "_sources_" \o JoinIds(SortIds(f)) :
              c \in Credentials, f \in RelayFilters \ {<<>>}}

\* the strings that carry the cookie itself: the cookie, a cache id made of
\* it, and the head of such an id as the Cache logs it
RawStrings == {CookieString(c) : c \in Credentials} \cup RawIds \cup {IdPrefix(id) : id \in RawIds}

\* the data of the entries of a cache
CachedData(cache) == {cache[id].data : id \in DOMAIN cache}

----------------------------------------------------------------------------
(* Claims about the data of two users *)

\* the public source metadata a fetcher can have read: the config of the
\* platform, or the empty config fetchDDBConfig falls back to
PublicConfigs == {platformConfig, ConfigEmpty}

\* the item arrays fetchAllItems can return from what the platform answers
\* to the bearer of a credential
ItemBodiesOf(cookie, sourceBookIds) ==
    {JsArray(fetchAllItemsFrom(PlatformItemsOf(cookie), sourceBookIds, m, a).entries) :
         m \in PublicConfigs, a \in PublicConfigs}

\* the spell arrays fetchAllSpells can return from what the class endpoints
\* answer to the bearer of a credential, each class answering or failing
SpellBodiesOf(cookie, sourceBookIds) ==
    {JsArray(fetchAllSpellsFrom(
                 [c \in ActiveClasses |->
                     IF c \in answered
                     THEN enhanceClassResult(c, PlatformSpellsOf(c, cookie), buildSourceMap(m))
                     ELSE <<>>],
                 sourceBookIds, a).entries) :
         answered \in SUBSET ActiveClasses, m \in PublicConfigs, a \in PublicConfigs}

\* C22, the part about the arrays: the array an items or spells request of a
\* user is answered with is
\* made of what the platform answers to that user's credential and of the
\* public source metadata, whether it was fetched for this request or served
\* from the cache; an entry it is served from is held under the id of that
\* credential and was written by a request of that credential
C22_OwnDataOnly ==
    \A i \in 1..Len(history) :
        LET h == history[i]
            isItems == h.endpoint = "/api/content/items"
            before == IF isItems THEN h.before.itemsCache ELSE h.before.spellsCache
        IN (h.endpoint \in {"/api/content/items", "/api/content/spells"} /\ h.status = 200)
           => /\ h.body \in (IF isItems THEN ItemBodiesOf(h.cookie, h.sourceBookIds)
                             ELSE SpellBodiesOf(h.cookie, h.sourceBookIds))
              /\ h.hit =>
                     /\ ContentCacheId(h.cookie, h.sourceBookIds) \in DOMAIN before
                     /\ before[ContentCacheId(h.cookie, h.sourceBookIds)].data = h.body
                     /\ \A c \in UserCookies \ {h.cookie} :
                            ContentCacheId(c, h.sourceBookIds)
                                # ContentCacheId(h.cookie, h.sourceBookIds)

\* a request of one user was answered with a non-empty array while an entry of
\* the other user for the same endpoint and sourceBookIds was in the cache,
\* under an id of its own, and the two arrays differ
C22_Witness ==
    \E i \in 1..Len(history) :
        LET h == history[i]
            isItems == h.endpoint = "/api/content/items"
            before == IF isItems THEN h.before.itemsCache ELSE h.before.spellsCache
        IN /\ h.endpoint \in {"/api/content/items", "/api/content/spells"}
           /\ h.status = 200
           /\ h.body.val # <<>>
           /\ \E c \in UserCookies \ {h.cookie} :
                  /\ ContentCacheId(c, h.sourceBookIds) \in DOMAIN before
                  /\ before[ContentCacheId(c, h.sourceBookIds)].data # h.body

\* C22 as stated: the body of the response to an items or spells request of
\* one user depends only on what the platform answers to that user's
\* credential and on the public source metadata - when the platform has
\* answered every outbound request of the handler and no other request of the
\* same user has been answered, the body is one of the arrays made of that
\* user's data, whatever requests of the other user were answered before
C22_AsStated ==
    \A i \in 1..Len(history) :
        LET h == history[i]
        IN ( /\ h.endpoint \in {"/api/content/items", "/api/content/spells"}
             /\ h.lost = {}
             /\ \A j \in 1..Len(history) : j # i => history[j].cookie # h.cookie )
           => /\ h.status = 200
              /\ h.body \in (IF h.endpoint = "/api/content/items"
                             THEN ItemBodiesOf(h.cookie, h.sourceBookIds)
                             ELSE SpellBodiesOf(h.cookie, h.sourceBookIds))

----------------------------------------------------------------------------
(* Claims about concurrent requests for one cache id *)

\* the requests answered by history[i] and history[j] were in flight at the
\* same time, for the same endpoint and the same cache id, and both missed
\* the cache
ConcurrentMisses(i, j) ==
    /\ i < j
    /\ history[i].endpoint \in {"/api/content/items", "/api/content/spells"}
    /\ history[j].endpoint = history[i].endpoint
    /\ history[j].cookie = history[i].cookie
    /\ history[j].sourceBookIds = history[i].sourceBookIds
    /\ history[j].n \in history[i].peers
    /\ ~history[i].hit
    /\ ~history[j].hit

\* the entry under the cache id of the request answered by h, when h was answered
EntryAfter(h) ==
    LET cache == IF h.endpoint = "/api/content/items"
                 THEN h.after.itemsCache ELSE h.after.spellsCache
        id == ContentCacheId(h.cookie, h.sourceBookIds)
    IN IF id \in DOMAIN cache THEN cache[id].data ELSE JsNull

\* C26 as stated: of two concurrent items (or spells) requests with the same
\* cache id that both miss the cache, both go to the platform, each is
\* answered 200 with the array its own fetcher returned, and when both are
\* answered the entry under the id is the non-empty array of the request
\* whose cache write ran last, never anything but an array one of them wrote
C26_AsStated ==
    \A i, j \in 1..Len(history) :
        ConcurrentMisses(i, j) =>
            /\ \A k \in {i, j} :
                   /\ \E kind \in CallKinds : history[k].calls[kind] > 0
                   /\ history[k].fetched # JsNull =>
                          /\ history[k].status = 200
                          /\ history[k].body = history[k].fetched
            /\ (history[j].fetched # JsNull /\ ~IsEmptyArray(history[j].fetched)) =>
                   EntryAfter(history[j]) = history[j].fetched
            /\ EntryAfter(history[j]) \in {JsNull, history[i].fetched, history[j].fetched}

\* C26 as stated but for the responses the combined report has blocked
C26_ButForReport ==
    \A i, j \in 1..Len(history) :
        ConcurrentMisses(i, j) =>
            /\ \A k \in {i, j} :
                   /\ \E kind \in CallKinds : history[k].calls[kind] > 0
                   /\ (history[k].fetched # JsNull /\ history[k].status # 500) =>
                          /\ history[k].status = 200
                          /\ history[k].body = history[k].fetched
            /\ (history[j].fetched # JsNull /\ ~IsEmptyArray(history[j].fetched)) =>
                   EntryAfter(history[j]) = history[j].fetched
            /\ EntryAfter(history[j]) \in {JsNull, history[i].fetched, history[j].fetched}

\* two concurrent requests for one id have both been answered 200, each with
\* the array it fetched, the two arrays differ, and the entry is the array of
\* the one answered last
C26_LastWriterSeen ==
    \E i, j \in 1..Len(history) :
        /\ ConcurrentMisses(i, j)
        /\ history[i].status = 200 /\ history[j].status = 200
        /\ history[i].body # history[j].body
        /\ history[i].body.val # <<>> /\ history[j].body.val # <<>>
        /\ EntryAfter(history[j]) = history[j].body
====
